---- MODULE Spec2Model ----
(***************************************************************************)
(* A model of the local load balancer: the circuit breaker                 *)
(* (circuit_breaker/breaker.py), the selection algorithms                  *)
(* (load_balancer/algorithms.py), the instance pool and request forwarding *)
(* (load_balancer/balancer.py, services/service_instance.py) and the       *)
(* health checker (health/health_checker.py) and the failover manager      *)
(* (failover/failover_manager.py).                                         *)
(*                                                                         *)
(* Each component has its own specification over the shared variables:     *)
(*   Spec        one caller driving one CircuitBreaker, call() as a whole  *)
(*   ConcSpec    several threads inside CircuitBreaker.call(), by step     *)
(*   PoolSpec    one caller driving a LoadBalancer with round robin        *)
(*   RRSpec      several threads inside RoundRobinAlgorithm.select_instance*)
(*   WeightedSpec  one caller, a LoadBalancer with weighted round robin    *)
(*   AlgSpec       one caller, a LoadBalancer with any algorithm           *)
(*   HealthSpec    the health checker probing the instances of a pool      *)
(*   DispatchSpec  several threads inside forward_request, by step         *)
(*   ForwardSpec   one caller of forward_request, the call as a whole      *)
(*   RegistrySpec  one caller adding and removing instances                *)
(*   FailoverSpec  one caller driving a FailoverManager: failover          *)
(*   FailbackSpec  one caller driving a FailoverManager: failback          *)
(*   RemovalSpec   one thread inside forward_request while instances go    *)
(*   MonitorSpec   the monitor thread inside check_all_instances, by pass  *)
(*   AdvisorySpec  failover and failback checks next to selection          *)
(*   LockedWeightedSpec  several threads selecting with weighted round     *)
(*                 robin                                                   *)
(*   RecoverySpec  Spec with a running clock and a caller that keeps       *)
(*                 calling                                                 *)
(*   LifecycleSpec start() and stop() of the health checker and the        *)
(*                 monitor threads they make, by step                      *)
(*   StoppingSpec  LifecycleSpec with monitor threads that keep running    *)
(*   StaleSpec     a FailoverManager while instances leave and rejoin      *)
(***************************************************************************)
EXTENDS Integers, Sequences, FiniteSets, TLC

VARIABLES
    cfg,        \* CircuitBreaker constructor arguments
    cb,         \* CircuitBreaker mutable fields
    now,        \* the value time.time() returns
    last,       \* history: the last operation on the breaker and its result
    run,        \* history: consecutive failed calls since Closed with failure_count 0
    hrun,       \* history: consecutive successful calls since HalfOpen was entered
    since_reset, \* history: consecutive failed calls since reset()
    pc,         \* where each thread stands inside CircuitBreaker.call()
    admits,     \* history: wrapped calls admitted in the current HalfOpen period
    instances,  \* LoadBalancer.instances
    next_id,    \* the identity the next ServiceInstance object gets
    current_index, \* LoadBalancingAlgorithm.current_index
    picks,      \* history: what the get_next_instance calls in a row returned
    base,       \* history: current_index when that row of calls began
    rr_lock,    \* RoundRobinAlgorithm._lock: its holder, or Free
    rr_pc,      \* where each thread stands inside select_instance()
    rr_list,    \* the instances argument of each thread's select_instance()
    rr_got,     \* the local variable instance of each thread
    rr_used,    \* history: the current_index values line 51 has read, in order
    algorithm,  \* LoadBalancer.algorithm_name
    weighted_instances, \* WeightedRoundRobinAlgorithm.weighted_instances
    last_instances, \* WeightedRoundRobinAlgorithm.last_instances
    sel,        \* history: the last get_next_instance call and what it saw
    unhealthy_threshold, \* HealthChecker.unhealthy_threshold
    probe,      \* history: the last health probe and the instance around it
    removed,    \* the instances taken out of the pool: callers may still hold them
    started,    \* history: how many forward_request calls have started
    d,          \* each thread's place in forward_request and its local variables
    fwd,        \* history: the last forward_request call of a single caller
    cycle,      \* history: the probes of the last check_all_instances, in order
    reg,        \* history: the last add_instance or remove_instance call
    enable_failback,   \* FailoverManager.enable_failback
    primary_instances, \* FailoverManager.primary_instances, in insertion order
    backup_instances,  \* FailoverManager.backup_instances
    failover_history,  \* FailoverManager.failover_history
    fo,         \* history: the last FailoverManager call and what it returned
    running,    \* HealthChecker.running
    monitor_thread, \* HealthChecker.monitor_thread: the thread start() made last
    monitors,   \* the threads start() has made, each with its place in _monitor_loop
    owner       \* the caller of start() and stop(): its place and its last call

breaker_vars == <<cfg, cb, now, last, run, hrun, since_reset>>
thread_vars == <<pc, admits>>
pool_vars == <<instances, next_id, current_index, picks, base>>
rr_vars == <<rr_lock, rr_pc, rr_list, rr_got, rr_used>>
lb_vars == <<pool_vars, rr_vars>>
alg_vars == <<algorithm, weighted_instances, last_instances, sel>>
lifecycle_vars == <<running, monitor_thread, monitors, owner>>
health_vars == <<unhealthy_threshold, probe, cycle, lifecycle_vars>>
dispatch_vars == <<removed, started, d, fwd>>
failover_vars == <<enable_failback, primary_instances, backup_instances,
                   failover_history, fo>>
mgmt_vars == <<reg, failover_vars>>
ext_vars == <<alg_vars, health_vars, dispatch_vars, mgmt_vars>>
vars == <<breaker_vars, thread_vars, lb_vars, ext_vars>>

(***************************************************************************)
(* Bounds of the model.                                                    *)
(***************************************************************************)
MaxThreshold == 3
MaxTimeout == 2
MaxHalfOpen == 2
MaxTime == 4
MaxSuccess == 3
MaxInstances == 3
MaxFailures == 1
MaxSelect == 6
MaxWeighted == 2
MaxWeightedSelect == 12
MaxAlgInstances == 2
MaxAlgSelect == 3
MaxConnections == 2
MaxRequests == 2
MaxHealthInstances == 2
MaxProbeFailures == 2
MaxDispatches == 2
MaxForwardInstances == 2
MaxForwards == 2
MaxRegistry == 3
MaxEvents == 2
MaxFailoverRequests == 2
MaxMonitorInstances == 2
MaxAdvisorySelect == 2
MaxLockedSelect == 3
MaxMonitors == 2
MaxReAdded == 3
MaxStaleEvents == 1
MaxStaleRequests == 1

(***************************************************************************)
(* circuit_breaker/breaker.py                                              *)
(***************************************************************************)
CLOSED == "closed"
OPEN == "open"
HALF_OPEN == "half_open"
CircuitState == {CLOSED, OPEN, HALF_OPEN}

\* last_failure_time = None
None == -1

\* What the wrapped function can do: return, or raise one of these.
Errors == {"ErrA", "ErrB"}
Outcomes == {"ok"} \cup Errors

\* A failure_threshold below 1 behaves as 1 (the count is compared after the
\* increment), so thresholds start at 1; half_open_max_calls = 0 is a
\* behaviour of its own (no trial call is ever let through).
Configs ==
    [failure_threshold : 1..MaxThreshold,
     timeout : 0..MaxTimeout,
     half_open_max_calls : 0..MaxHalfOpen]

\* CircuitBreaker.__init__
NewBreaker ==
    [state |-> CLOSED, failure_count |-> 0, success_count |-> 0,
     last_failure_time |-> None, half_open_calls |-> 0]

\* a reset that forgets the failure counter
_transition_to_closed_keeps_failures(b) ==
    [b EXCEPT !.state = CLOSED, !.success_count = 0, !.half_open_calls = 0]

_transition_to_closed(b) ==
    [b EXCEPT !.state = CLOSED, !.failure_count = 0,
              !.success_count = 0, !.half_open_calls = 0]

_transition_to_open(b) ==
    [b EXCEPT !.state = OPEN, !.success_count = 0, !.half_open_calls = 0]

_transition_to_half_open(b) ==
    [b EXCEPT !.state = HALF_OPEN, !.failure_count = 0,
              !.success_count = 0, !.half_open_calls = 0]

\* the clock compared with the timeout, not the time since the last failure
_should_attempt_reset_absolute(b, t) ==
    IF b.last_failure_time = None
    THEN TRUE
    ELSE t >= cfg.timeout

\* a cool-down that must be exceeded, not reached
_should_attempt_reset_strict(b, t) ==
    IF b.last_failure_time = None
    THEN TRUE
    ELSE t - b.last_failure_time > cfg.timeout

_should_attempt_reset(b, t) ==
    IF b.last_failure_time = None
    THEN TRUE
    ELSE t - b.last_failure_time >= cfg.timeout

\* one success too many asked of HalfOpen
_on_success_off_by_one(b) ==
    LET b1 == [b EXCEPT !.success_count = @ + 1]
    IN  IF b1.state = HALF_OPEN /\ b1.success_count > cfg.half_open_max_calls
        THEN _transition_to_closed(b1)
        ELSE b1

\* a success that forgives the failures counted so far
_on_success_resetting(b) ==
    LET b1 == [b EXCEPT !.success_count = @ + 1]
    IN  IF b1.state = HALF_OPEN /\ b1.success_count >= cfg.half_open_max_calls
        THEN _transition_to_closed(b1)
        ELSE [b1 EXCEPT !.failure_count = 0]

_on_success(b) ==
    LET b1 == [b EXCEPT !.success_count = @ + 1]
    IN  IF b1.state = HALF_OPEN /\ b1.success_count >= cfg.half_open_max_calls
        THEN _transition_to_closed(b1)
        ELSE b1

\* the threshold must be exceeded, not reached
_on_failure_off_by_one(b, t) ==
    LET b1 == [b EXCEPT !.failure_count = @ + 1, !.last_failure_time = t]
    IN  IF b1.state = HALF_OPEN
        THEN _transition_to_open(b1)
        ELSE IF b1.state = CLOSED /\ b1.failure_count > cfg.failure_threshold
             THEN _transition_to_open(b1)
             ELSE b1

\* HalfOpen failures counted against the threshold like Closed ones
_on_failure_threshold_in_half_open(b, t) ==
    LET b1 == [b EXCEPT !.failure_count = @ + 1, !.last_failure_time = t]
    IN  IF b1.state \in {HALF_OPEN, CLOSED}
           /\ b1.failure_count >= cfg.failure_threshold
        THEN _transition_to_open(b1)
        ELSE b1

\* a trial failure that keeps the time of the failure before it
_on_failure_keeps_time_in_half_open(b, t) ==
    LET b1 == [b EXCEPT !.failure_count = @ + 1,
                        !.last_failure_time =
                            IF b.state = HALF_OPEN /\ @ # None THEN @ ELSE t]
    IN  IF b1.state = HALF_OPEN
        THEN _transition_to_open(b1)
        ELSE IF b1.state = CLOSED /\ b1.failure_count >= cfg.failure_threshold
             THEN _transition_to_open(b1)
             ELSE b1

_on_failure(b, t) ==
    LET b1 == [b EXCEPT !.failure_count = @ + 1, !.last_failure_time = t]
    IN  IF b1.state = HALF_OPEN
        THEN _transition_to_open(b1)
        ELSE IF b1.state = CLOSED /\ b1.failure_count >= cfg.failure_threshold
             THEN _transition_to_open(b1)
             ELSE b1

\* call(), lines 65-76: the decision taken before the wrapped function runs.
\* verdict "admit" lets the function run; the others are the raised rejections.
admit(b, t) ==
    LET rejected_open == b.state = OPEN /\ ~_should_attempt_reset(b, t)
        b1 == IF b.state = OPEN /\ _should_attempt_reset(b, t)
              THEN _transition_to_half_open(b)
              ELSE b
    IN  IF rejected_open
        THEN [b |-> b, verdict |-> "CircuitOpen"]
        ELSE IF b1.state = HALF_OPEN
             THEN IF b1.half_open_calls >= cfg.half_open_max_calls
                  THEN [b |-> b1, verdict |-> "HalfOpenLimit"]
                  ELSE [b |-> [b1 EXCEPT !.half_open_calls = @ + 1],
                        verdict |-> "admit"]
             ELSE [b |-> b1, verdict |-> "admit"]

\* the failure recorded, the error replaced by the breaker's own
execute_masks_error(b, t, out) ==
    IF out = "ok"
    THEN [b |-> _on_success(b), kind |-> "return", err |-> "none"]
    ELSE [b |-> _on_failure(b, t), kind |-> "raise", err |-> "CircuitOpen"]

\* call(), lines 78-85: the wrapped function runs with outcome `out`.
execute(b, t, out) ==
    IF out = "ok"
    THEN [b |-> _on_success(b), kind |-> "return", err |-> "none"]
    ELSE [b |-> _on_failure(b, t), kind |-> "raise", err |-> out]

\* call() as a whole, at time t, the wrapped function behaving as `out`.
\* mid is the breaker as the wrapped function finds it (or as the rejection
\* leaves it).
call(b, t, out) ==
    LET a == admit(b, t)
    IN  IF a.verdict = "admit"
        THEN LET r == execute(a.b, t, out)
             IN  [b |-> r.b, kind |-> r.kind, err |-> r.err,
                  invoked |-> TRUE, mid |-> a.b]
        ELSE [b |-> a.b, kind |-> "raise", err |-> a.verdict,
              invoked |-> FALSE, mid |-> a.b]

reset(b) == _transition_to_closed(b)

(***************************************************************************)
(* services/service_instance.py                                            *)
(***************************************************************************)
HEALTHY == "healthy"
UNHEALTHY == "unhealthy"
DEGRADED == "degraded"
UNKNOWN == "unknown"

\* The names add_instance and remove_instance are called with.
Names == {"a", "b"}

\* ServiceInstance.__init__; id stands for the identity of the object.
\* (url and the timestamps are not modelled; response times are whole numbers.)
NewInstance(id, name, weight) ==
    [id |-> id, name |-> name, weight |-> weight,
     health_status |-> UNKNOWN, consecutive_failures |-> 0,
     active_connections |-> 0,
     total_requests |-> 0, successful_requests |-> 0, failed_requests |-> 0,
     total_response_time |-> 0]

\* Python's None where an instance is expected
NoInstance == NewInstance(0, "", 1)

mark_healthy(i) ==
    [i EXCEPT !.health_status = HEALTHY, !.consecutive_failures = 0]

\* the status set, the failure not counted
mark_unhealthy_uncounted(i) == [i EXCEPT !.health_status = UNHEALTHY]

mark_unhealthy(i) ==
    [i EXCEPT !.health_status = UNHEALTHY, !.consecutive_failures = @ + 1]

\* Degraded with the failures forgotten
mark_degraded_reset(i) ==
    [i EXCEPT !.health_status = DEGRADED, !.consecutive_failures = 0]

\* lines 66-69: consecutive_failures is left as it is
mark_degraded(i) == [i EXCEPT !.health_status = DEGRADED]

is_healthy(i) == i.health_status = HEALTHY

\* lines 75-77
incremented(n) == n + 1

increment_connections(i) ==
    [i EXCEPT !.active_connections = incremented(@)]

\* the count lowered without the floor at 0
decremented_unclamped(n) == n - 1

\* line 81: max(0, n - 1)
decremented(n) == IF n - 1 > 0 THEN n - 1 ELSE 0

\* lines 79-81
decrement_connections(i) ==
    [i EXCEPT !.active_connections = decremented(@)]

\* lines 83-99
record_request(i, success, response_time) ==
    [i EXCEPT !.total_requests = @ + 1,
              !.successful_requests = IF success THEN @ + 1 ELSE @,
              !.failed_requests = IF success THEN @ ELSE @ + 1,
              !.total_response_time = @ + response_time]

\* lines 101-105, as the fraction <<numerator, denominator>>
get_average_response_time(i) ==
    IF i.total_requests = 0
    THEN <<0, 1>>
    ELSE <<i.total_response_time, i.total_requests>>

(***************************************************************************)
(* load_balancer/algorithms.py: RoundRobinAlgorithm                        *)
(***************************************************************************)
\* the cursor advanced before it is used
select_index_after_advance(list, idx) == list[((idx + 1) % Len(list)) + 1]

\* line 51 (Python indexes from 0, TLA+ from 1)
select_index(list, idx) == list[(idx % Len(list)) + 1]

\* line 54
next_index(idx) == idx + 1

\* select_instance() as a whole: the instance returned and the new cursor
select_instance(list, idx) ==
    IF list = <<>>
    THEN [instance |-> NoInstance, current_index |-> idx]
    ELSE [instance |-> select_index(list, idx),
          current_index |-> next_index(idx)]

\* a lock that does not exclude
lock_is_free_always(l) == TRUE

\* RoundRobinAlgorithm._lock, line 49: `with self._lock` enters when it is free
Free == "free"
lock_is_free(l) == l = Free

(***************************************************************************)
(* load_balancer/algorithms.py: WeightedRoundRobinAlgorithm                *)
(*                                                                         *)
(* weighted_instances and last_instances hold references to instances,     *)
(* here their identities.                                                  *)
(***************************************************************************)
\* the identities of the instances of a list, in list order
Ids(list) == [k \in 1..Len(list) |-> list[k].id]

\* the instance of a list with the given identity
ById(list, id) == list[CHOOSE k \in 1..Len(list) : list[k].id = id]

\* n references to the same instance
Repeat(id, n) == [k \in 1..n |-> id]

\* every instance once, whatever its weight
RECURSIVE _build_weighted_list_unweighted(_)
_build_weighted_list_unweighted(list) ==
    IF list = <<>>
    THEN <<>>
    ELSE <<Head(list).id>> \o _build_weighted_list_unweighted(Tail(list))

\* lines 102-109: each instance `weight` times, in list order
RECURSIVE _build_weighted_list(_)
_build_weighted_list(list) ==
    IF list = <<>>
    THEN <<>>
    ELSE Repeat(Head(list).id, Head(list).weight)
             \o _build_weighted_list(Tail(list))

\* lists that differ only when their lengths do
instances_changed_by_length(list, li) == Len(list) # Len(li)

\* line 87, instances != self.last_instances: lists are compared element by
\* element, and ServiceInstance defines no __eq__, so by identity
instances_changed(list, li) == Ids(list) # li

\* lines 72-100 with one caller: the instance returned, the new cursor and
\* the new expansion. wi is weighted_instances, li is last_instances.
weighted_select_instance(list, idx, wi, li) ==
    IF list = <<>>
    THEN [instance |-> NoInstance, current_index |-> idx,
          weighted_instances |-> wi, last_instances |-> li]
    ELSE LET rebuild == instances_changed(list, li)
             wi2 == IF rebuild THEN _build_weighted_list(list) ELSE wi
             li2 == IF rebuild THEN Ids(list) ELSE li
         IN  IF wi2 = <<>>
             THEN [instance |-> list[1], current_index |-> idx,
                   weighted_instances |-> wi2, last_instances |-> li2]
             ELSE [instance |-> ById(list, select_index(wi2, idx)),
                   current_index |-> next_index(idx),
                   weighted_instances |-> wi2, last_instances |-> li2]

(***************************************************************************)
(* load_balancer/algorithms.py: the algorithms built on min() and          *)
(* random.choice(), and the factory                                        *)
(*                                                                         *)
(* Keys are fractions <<numerator, denominator>> with a positive           *)
(* denominator, so that average response times compare exactly.            *)
(***************************************************************************)
\* p < q
Less(p, q) == p[1] * q[2] < q[1] * p[2]

\* the last of the smallest keys
RECURSIVE min_from_last(_, _, _)
min_from_last(keys, k, best) ==
    IF k > Len(keys)
    THEN best
    ELSE min_from_last(keys, k + 1,
                       IF Less(keys[best], keys[k]) THEN best ELSE k)

min_index_last(keys) == min_from_last(keys, 2, 1)

\* Python's min(): walks the list and keeps the first of the smallest keys
RECURSIVE min_from(_, _, _)
min_from(keys, k, best) ==
    IF k > Len(keys)
    THEN best
    ELSE min_from(keys, k + 1, IF Less(keys[k], keys[best]) THEN k ELSE best)

\* the position min(list, key = ...) returns, given the keys of the list
min_index(keys) == min_from(keys, 2, 1)

\* LeastConnectionsAlgorithm.select_instance, lines 118-132
least_connections_select(list) ==
    IF list = <<>>
    THEN NoInstance
    ELSE list[min_index([k \in 1..Len(list) |->
                             <<list[k].active_connections, 1>>])]

\* LeastResponseTimeAlgorithm.select_instance, lines 163-177
least_response_time_select(list) ==
    IF list = <<>>
    THEN NoInstance
    ELSE list[min_index([k \in 1..Len(list) |->
                             get_average_response_time(list[k])])]

\* RandomAlgorithm.select_instance, lines 141-154; r is the position
\* random.choice() draws
random_select(list, r) ==
    IF list = <<>> THEN NoInstance ELSE list[r]

\* get_algorithm, lines 181-200: the class registered under a name, and
\* RoundRobinAlgorithm for any other name
AlgorithmNames ==
    {"round_robin", "weighted", "least_connections", "random",
     "least_response_time"}

get_algorithm(name) == IF name \in AlgorithmNames THEN name ELSE "round_robin"

\* algorithm.select_instance(list) for the algorithm created under `name`:
\* the instance returned and the algorithm's fields afterwards
algorithm_select(name, list, idx, wi, li, r) ==
    LET keep(i) == [instance |-> i, current_index |-> idx,
                    weighted_instances |-> wi, last_instances |-> li]
        rr == select_instance(list, idx)
    IN  CASE get_algorithm(name) = "round_robin" ->
                 [instance |-> rr.instance, current_index |-> rr.current_index,
                  weighted_instances |-> wi, last_instances |-> li]
          [] get_algorithm(name) = "weighted" ->
                 weighted_select_instance(list, idx, wi, li)
          [] get_algorithm(name) = "least_connections" ->
                 keep(least_connections_select(list))
          [] get_algorithm(name) = "random" ->
                 keep(random_select(list, r))
          [] get_algorithm(name) = "least_response_time" ->
                 keep(least_response_time_select(list))

(***************************************************************************)
(* load_balancer/balancer.py                                               *)
(***************************************************************************)
add_instance(insts, id, name, weight) ==
    Append(insts, NewInstance(id, name, weight))

\* the survivors, last one first
remove_instance_reversed(insts, name) ==
    LET kept == SelectSeq(insts, LAMBDA i : i.name # name)
    IN  [k \in 1..Len(kept) |-> kept[Len(kept) + 1 - k]]

remove_instance(insts, name) == SelectSeq(insts, LAMBDA i : i.name # name)

\* every instance of the pool, healthy or not
get_healthy_instances_unfiltered(insts) == insts

get_healthy_instances(insts) == SelectSeq(insts, is_healthy)

get_next_instance(insts, idx) ==
    LET healthy_instances == get_healthy_instances(insts)
    IN  IF healthy_instances = <<>>
        THEN [instance |-> NoInstance, current_index |-> idx]
        ELSE select_instance(healthy_instances, idx)

\* get_next_instance, lines 63-81, for any algorithm
get_next_instance_of(name, insts, idx, wi, li, r) ==
    LET healthy_instances == get_healthy_instances(insts)
    IN  IF healthy_instances = <<>>
        THEN [instance |-> NoInstance, current_index |-> idx,
              weighted_instances |-> wi, last_instances |-> li]
        ELSE algorithm_select(name, healthy_instances, idx, wi, li, r)

\* LoadBalancer.__init__ with algorithm = 'round_robin'
PoolInit ==
    /\ instances = <<>>
    /\ next_id = 1
    /\ current_index = 0
    /\ picks = <<>>
    /\ base = 0

(***************************************************************************)
(* load_balancer/balancer.py: forward_request's exception handling         *)
(*                                                                         *)
(* The exceptions are those of requests 2.27 and later, where the error    *)
(* response.json() raises on a body that is not JSON derives from          *)
(* RequestException.                                                       *)
(***************************************************************************)
\* forward_request's timeout argument, when the caller gives none
DefaultTimeout == 5

\* the base class of an exception class
Base(class) ==
    CASE class = "Timeout" -> "RequestException"
      [] class = "ConnectionError" -> "RequestException"
      [] class = "JSONDecodeError" -> "RequestException"
      [] OTHER -> "Exception"

\* an exception of class `class` is an instance of `of`
isinstance(class, of) == class = of \/ Base(class) = of

\* line 132: except requests.exceptions.Timeout
catches_timeout(class) == isinstance(class, "Timeout")

\* a clause that catches RequestException itself and no class derived from it
catches_request_exception_exact(class) == class = "RequestException"

\* line 140: except requests.exceptions.RequestException
catches_request_exception(class) == isinstance(class, "RequestException")

\* the except clause an exception raised in the try block reaches, in the
\* order the clauses are written; "none" when it propagates
handler_for(class) ==
    IF catches_timeout(class)
    THEN "timeout"
    ELSE IF catches_request_exception(class) THEN "failed" ELSE "none"

\* the status forward_request returns from an except clause, lines 138, 145
error_code(handler) == IF handler = "timeout" THEN 504 ELSE 502

\* lines 132-145: an exception of class `class` raised in the try block, on
\* the instance as it is by then; records and decrements count the
\* record_request and decrement_connections calls made so far
handle(i, class, records, decrements) ==
    IF handler_for(class) = "none"
    THEN [instance |-> i, kind |-> "raised", code |-> 0,
          records |-> records, decrements |-> decrements]
    ELSE [instance |->
              decrement_connections(
                  record_request(i, FALSE,
                                 IF handler_for(class) = "timeout"
                                 THEN DefaultTimeout
                                 ELSE 0)),
          kind |-> "error", code |-> error_code(handler_for(class)),
          records |-> records + 1, decrements |-> decrements + 1]

\* lines 105-145 with one caller, on the instance selected: outcome is what
\* the request does, decoded whether response.json() finds JSON
attempt(i, outcome, response_time, decoded) ==
    IF outcome.kind = "response"
    THEN LET answered ==
                 decrement_connections(
                     record_request(increment_connections(i),
                                    outcome.status_code < 400, response_time))
         IN  IF decoded
             THEN [instance |-> answered, kind |-> "result",
                   code |-> outcome.status_code,
                   records |-> 1, decrements |-> 1]
             ELSE handle(answered, "JSONDecodeError", 1, 1)
    ELSE handle(increment_connections(i), outcome.kind, 0, 0)

\* forward_request, lines 83-145, with one caller: the pool and the cursor
\* afterwards, and what the call did
forward_request(insts, idx, outcome, response_time, decoded) ==
    LET got == get_next_instance(insts, idx)
        r == attempt(got.instance, outcome, response_time, decoded)
    IN  IF got.instance = NoInstance
        THEN [instances |-> insts, current_index |-> got.current_index,
              call |-> [op |-> "forward", kind |-> "error", code |-> 503,
                        instance |-> 0, increments |-> 0, decrements |-> 0,
                        records |-> 0, before |-> 0, after |-> 0]]
        ELSE [instances |->
                  [k \in 1..Len(insts) |->
                      IF insts[k].id = got.instance.id
                      THEN r.instance
                      ELSE insts[k]],
              current_index |-> got.current_index,
              call |-> [op |-> "forward", kind |-> r.kind, code |-> r.code,
                        instance |-> got.instance.id, increments |-> 1,
                        decrements |-> r.decrements, records |-> r.records,
                        before |-> got.instance.active_connections,
                        after |-> r.instance.active_connections]]

(***************************************************************************)
(* health/health_checker.py                                                *)
(*                                                                         *)
(* The outcome of requests.get(health_url, timeout): a response with its   *)
(* status code, or one of the exceptions the code catches.                 *)
(***************************************************************************)
StatusCodes == {200, 204, 404, 500}

Response(code) == [kind |-> "response", status_code |-> code]
Raised(class) == [kind |-> class, status_code |-> 0]

ProbeOutcomes ==
    {Response(code) : code \in StatusCodes}
        \cup {Raised("Timeout"), Raised("RequestException")}

\* lines 100-102
after_probe(i, threshold) ==
    IF i.consecutive_failures >= threshold /\ i.health_status # UNHEALTHY
    THEN mark_unhealthy(i)
    ELSE i

\* lines 76-98: the instance after the try statement
probe_handled(i, outcome) ==
    CASE outcome.kind = "response" ->
             IF outcome.status_code = 200
             THEN mark_healthy(i)
             ELSE mark_unhealthy(i)
      [] outcome.kind = "Timeout" -> mark_unhealthy(i)
      [] outcome.kind = "RequestException" -> mark_unhealthy(i)

\* check_instance_health, lines 68-103
check_instance_health(i, outcome, threshold) ==
    after_probe(probe_handled(i, outcome), threshold)

\* lines 100-103: whether the call logs, at level ERROR, that the instance
\* was marked as UNHEALTHY after its failures
escalation_logged(i, outcome, threshold) ==
    LET handled == probe_handled(i, outcome)
    IN  /\ handled.consecutive_failures >= threshold
        /\ handled.health_status # UNHEALTHY

\* except clauses that catch the named class and no class derived from it
probe_handler_for_exact(class) ==
    IF class = "Timeout"
    THEN "timeout"
    ELSE IF class = "RequestException" THEN "failed" ELSE "none"

\* the except clause of check_instance_health an exception raised by
\* requests.get reaches, lines 87 and 92; "none" when it propagates
probe_handler_for(class) ==
    IF isinstance(class, "Timeout")
    THEN "timeout"
    ELSE IF isinstance(class, "RequestException") THEN "failed" ELSE "none"

\* one pass of the loop of check_all_instances, lines 65-66, on instance i:
\* the instance after it, and whether an exception left the loop
probe_step(i, outcome, threshold) ==
    IF outcome.kind = "response"
    THEN [instance |-> check_instance_health(i, outcome, threshold),
          raised |-> FALSE]
    ELSE IF probe_handler_for(outcome.kind) = "none"
         THEN [instance |-> i, raised |-> TRUE]
         ELSE [instance |->
                   check_instance_health(
                       i,
                       IF probe_handler_for(outcome.kind) = "timeout"
                       THEN Raised("Timeout")
                       ELSE Raised("RequestException"),
                       threshold),
               raised |-> FALSE]

\* a stop that leaves the flag as it is
stop_keeps_flag(h) == h

\* stop, line 49: h is the checker's running flag and monitor_thread
stop(h) == [h EXCEPT !.running = FALSE]

\* start, lines 42-43, n being the thread it makes
start(h, n) == [running |-> TRUE, monitor_thread |-> n]

\* line 56: the loop goes on while the flag is set
loop_continues(flag) == flag

\* check_all_instances, lines 63-66, every probe of the cycle with the same
\* outcome
RECURSIVE check_all_instances(_, _, _)
check_all_instances(insts, outcome, threshold) ==
    IF insts = <<>>
    THEN <<>>
    ELSE <<probe_step(Head(insts), outcome, threshold).instance>>
             \o check_all_instances(Tail(insts), outcome, threshold)

\* get_health_summary, lines 105-128: the counts by status and one entry for
\* each instance of the pool, in pool order
get_health_summary(insts) ==
    LET count(status) ==
            Cardinality({k \in 1..Len(insts) : insts[k].health_status = status})
    IN  [total_instances |-> Len(insts),
         healthy |-> count(HEALTHY),
         unhealthy |-> count(UNHEALTHY),
         degraded |-> count(DEGRADED),
         unknown |-> count(UNKNOWN),
         instances |-> [k \in 1..Len(insts) |->
                           [name |-> insts[k].name,
                            status |-> insts[k].health_status,
                            consecutive_failures |-> insts[k].consecutive_failures]]]

(***************************************************************************)
(* failover/failover_manager.py                                            *)
(*                                                                         *)
(* primary_instances is a dict in insertion order, kept as a sequence of   *)
(* entries; backup_instances is only looked up, kept as a function of the  *)
(* primary names it holds.  Both hold references to instances, kept as     *)
(* their identities.  The timestamp of an event is left out.               *)
(***************************************************************************)
\* LoadBalancer.get_instance_by_name: the first instance with the name, or None
get_instance_by_name(insts, name) ==
    LET S == {k \in 1..Len(insts) : insts[k].name = name}
    IN  IF S = {}
        THEN NoInstance
        ELSE insts[CHOOSE k \in S : \A m \in S : k <= m]

\* d[name] = id for a dict in insertion order
dict_set(entries, name, id) ==
    IF \E k \in 1..Len(entries) : entries[k].name = name
    THEN [k \in 1..Len(entries) |->
             IF entries[k].name = name
             THEN [name |-> name, instance |-> id]
             ELSE entries[k]]
    ELSE Append(entries, [name |-> name, instance |-> id])

set_primary(primaries, insts, instance_name) ==
    LET instance == get_instance_by_name(insts, instance_name)
    IN  IF instance # NoInstance
        THEN dict_set(primaries, instance_name, instance.id)
        ELSE primaries

set_backup(backups, insts, primary_name, backup_name) ==
    LET backup == get_instance_by_name(insts, backup_name)
    IN  IF backup # NoInstance
        THEN (primary_name :> backup.id) @@ backups
        ELSE backups

Event(type, from, to, reason) ==
    [type |-> type, from |-> from, to |-> to, reason |-> reason]

\* a log that keeps only its latest event
_perform_failover_replacing(history, primary, backup) ==
    <<Event("failover", primary.name, backup.name, "primary_unhealthy")>>

_perform_failover(history, primary, backup) ==
    Append(history, Event("failover", primary.name, backup.name, "primary_unhealthy"))

_perform_failback(history, primary, backup) ==
    Append(history, Event("failback", backup.name, primary.name, "primary_recovered"))

\* a failover whatever the health of the backup
should_failover_unchecked(primary_name, primary_instance, backups, objs) ==
    /\ ~is_healthy(primary_instance)
    /\ primary_name \in DOMAIN backups

\* lines 65-70
should_failover(primary_name, primary_instance, backups, objs) ==
    /\ ~is_healthy(primary_instance)
    /\ primary_name \in DOMAIN backups
    /\ is_healthy(ById(objs, backups[primary_name]))

\* the loop of check_and_failover from entry k of primary_instances on
RECURSIVE failover_from(_, _, _, _, _)
failover_from(k, primaries, backups, objs, history) ==
    IF k > Len(primaries)
    THEN history
    ELSE LET primary_name == primaries[k].name
             primary_instance == ById(objs, primaries[k].instance)
         IN  failover_from(k + 1, primaries, backups, objs,
                 IF should_failover(primary_name, primary_instance, backups, objs)
                 THEN _perform_failover(history, primary_instance,
                                        ById(objs, backups[primary_name]))
                 ELSE history)

check_and_failover(primaries, backups, objs, history) ==
    failover_from(1, primaries, backups, objs, history)

\* a backup with as many requests as the primary counts as active
backup_is_active_or_level(primary, backup) ==
    backup.total_requests >= primary.total_requests

\* line 87
backup_is_active(primary, backup) ==
    backup.total_requests > primary.total_requests

\* lines 81-87
should_failback(primary_name, primary_instance, backups, objs) ==
    /\ is_healthy(primary_instance)
    /\ primary_name \in DOMAIN backups
    /\ backup_is_active(primary_instance, ById(objs, backups[primary_name]))

\* the loop of check_and_failback from entry k of primary_instances on
RECURSIVE failback_from(_, _, _, _, _)
failback_from(k, primaries, backups, objs, history) ==
    IF k > Len(primaries)
    THEN history
    ELSE LET primary_name == primaries[k].name
             primary_instance == ById(objs, primaries[k].instance)
         IN  failback_from(k + 1, primaries, backups, objs,
                 IF should_failback(primary_name, primary_instance, backups, objs)
                 THEN _perform_failback(history, primary_instance,
                                        ById(objs, backups[primary_name]))
                 ELSE history)

check_and_failback(enabled, primaries, backups, objs, history) ==
    IF ~enabled
    THEN history
    ELSE failback_from(1, primaries, backups, objs, history)

\* a call that hands the log out and empties it
get_failover_history_draining(history) ==
    [failover_history |-> <<>>, ret |-> history]

\* get_failover_history: the log after the call and the value returned
get_failover_history(history) ==
    [failover_history |-> history, ret |-> history]

(***************************************************************************)
(* One caller: Spec                                                        *)
(***************************************************************************)
NoOp(b) ==
    [op |-> "init", kind |-> "none", err |-> "none", invoked |-> FALSE,
     out |-> "none", after_reset |-> FALSE, pre |-> b, mid |-> b, at |-> 0]

Fresh(b) == b.state = CLOSED /\ b.failure_count = 0

\* The threads that share the breaker in ConcSpec.
Threads == {"t1", "t2"}

BreakerInit ==
    /\ cb = NewBreaker
    /\ now = 0
    /\ last = NoOp(NewBreaker)
    /\ run = 0
    /\ hrun = 0
    /\ since_reset = -1

ThreadsInit ==
    /\ pc = [t \in Threads |-> "idle"]
    /\ admits = 0

\* no thread inside RoundRobinAlgorithm.select_instance
RRInit ==
    /\ rr_lock = Free
    /\ rr_pc = [t \in Threads |-> "idle"]
    /\ rr_list = [t \in Threads |-> <<>>]
    /\ rr_got = [t \in Threads |-> [instance |-> 0, cursor |-> -1]]
    /\ rr_used = <<>>

\* Python's None where a list of instances is expected: no list equals it
NoList == <<0>>

\* nothing selected yet
NoSel == [op |-> "none", instance |-> 0]

\* nothing probed yet
NoProbe == [op |-> "none", outcome |-> Raised("none"), pre |-> NoInstance,
            post |-> NoInstance, escalated |-> FALSE]

\* no check_all_instances call yet
NoCycle ==
    [pc |-> "idle", list |-> <<>>, shared |-> FALSE, pos |-> 1,
     start |-> <<>>, probed |-> <<>>]

\* LoadBalancer(name): balancer.py lines 29-31, algorithms.py lines 66-70
AlgInit(name) ==
    /\ algorithm = name
    /\ weighted_instances = <<>>
    /\ last_instances = NoList
    /\ sel = NoSel

\* monitor_thread = None
NoThread == 0

\* HealthChecker(lb, unhealthy_threshold = n), nothing probed yet
HealthInit(n) ==
    /\ unhealthy_threshold = n
    /\ probe = NoProbe
    /\ cycle = NoCycle
    /\ running = FALSE
    /\ monitor_thread = NoThread
    /\ monitors = <<>>
    /\ owner = [pc |-> "idle", call |-> "none"]

\* no forward_request call yet
NoForward ==
    [op |-> "none", kind |-> "none", code |-> 0, instance |-> 0,
     increments |-> 0, decrements |-> 0, records |-> 0,
     before |-> 0, after |-> 0]

\* a thread outside forward_request
IdleThread ==
    [pc |-> "idle", half |-> "read", instance |-> 0, tmp |-> 0,
     handler |-> "try", success |-> FALSE, response_time |-> 0]

\* no thread in forward_request, nothing removed
DispatchInit ==
    /\ removed = <<>>
    /\ started = 0
    /\ d = [t \in Threads |-> IdleThread]
    /\ fwd = NoForward

\* no add_instance or remove_instance call yet
NoReg == [op |-> "none", name |-> "", pre |-> <<>>]

\* no FailoverManager call yet
NoCall == [op |-> "none", pre |-> 0, again |-> FALSE, ret |-> <<>>]

\* FailoverManager(lb, enable_failback)
FailoverInit(enabled) ==
    /\ enable_failback = enabled
    /\ primary_instances = <<>>
    /\ backup_instances = [name \in {} |-> 0]
    /\ failover_history = <<>>
    /\ fo = NoCall

\* nothing added or removed yet, a FailoverManager with its default
MgmtInit ==
    /\ reg = NoReg
    /\ FailoverInit(TRUE)

\* LoadBalancer('round_robin'), HealthChecker with its default threshold
ExtInit ==
    /\ AlgInit("round_robin")
    /\ HealthInit(3)
    /\ DispatchInit
    /\ MgmtInit

Init ==
    /\ cfg \in Configs
    /\ BreakerInit
    /\ ThreadsInit
    /\ PoolInit
    /\ RRInit
    /\ ExtInit

\* breaker.call(func) where func behaves as `out`
Call(out) ==
    /\ (cb.state = CLOSED /\ out = "ok") => cb.success_count < MaxSuccess
    /\ LET r == call(cb, now, out)
           failed == r.invoked /\ r.kind = "raise"
           succeeded == r.invoked /\ r.kind = "return"
           entered == cb.state # HALF_OPEN /\ r.mid.state = HALF_OPEN
       IN  /\ cb' = r.b
           /\ last' = [op |-> "call", kind |-> r.kind, err |-> r.err,
                       invoked |-> r.invoked, out |-> out,
                       after_reset |-> (since_reset = 0),
                       pre |-> cb, mid |-> r.mid, at |-> now]
           /\ run' = IF Fresh(r.b) THEN 0
                     ELSE IF failed /\ run >= 0 /\ run < cfg.failure_threshold
                          THEN run + 1
                          ELSE -1
           /\ hrun' = IF succeeded /\ entered THEN 1
                      ELSE IF succeeded /\ hrun >= 1 /\ r.mid.state = HALF_OPEN
                           THEN hrun + 1
                           ELSE 0
           /\ since_reset' =
                  IF failed /\ since_reset >= 0
                            /\ since_reset < cfg.failure_threshold
                  THEN since_reset + 1
                  ELSE -1
    /\ UNCHANGED <<cfg, now, thread_vars, lb_vars, ext_vars>>

\* breaker.reset()
Reset ==
    /\ cb' = reset(cb)
    /\ last' = [NoOp(cb) EXCEPT !.op = "reset", !.mid = reset(cb), !.at = now]
    /\ run' = 0
    /\ hrun' = 0
    /\ since_reset' = 0
    /\ UNCHANGED <<cfg, now, thread_vars, lb_vars, ext_vars>>

\* time passes between two operations
Tick ==
    /\ now < MaxTime
    /\ now' = now + 1
    /\ last' = [NoOp(cb) EXCEPT !.op = "tick", !.at = now + 1]
    /\ UNCHANGED <<cfg, cb, run, hrun, since_reset, thread_vars, lb_vars, ext_vars>>

Next ==
    \/ \E out \in Outcomes : Call(out)
    \/ Reset
    \/ Tick

Spec == Init /\ [][Next]_vars

(***************************************************************************)
(* Properties of the circuit breaker under one caller                      *)
(***************************************************************************)
Zeroed(b) ==
    b.failure_count = 0 /\ b.success_count = 0 /\ b.half_open_calls = 0

Elapsed(b, t) == t - b.last_failure_time

Rejections == {"CircuitOpen", "HalfOpenLimit"}

\* C1: starting Closed with failure_count 0, the breaker is still Closed
\* after fewer than failure_threshold consecutive failed calls and Open
\* right after the failure_threshold-th.
C1_OpensAtThreshold ==
    run >= 0 =>
        IF run < cfg.failure_threshold
        THEN cb.state = CLOSED
        ELSE run = cfg.failure_threshold /\ cb.state = OPEN

C1_Witness ==
    /\ cfg.failure_threshold = 3
    /\ run = 3
    /\ last.op = "call" /\ last.invoked /\ last.kind = "raise"
    /\ last.pre.state = CLOSED
    /\ cb.state = OPEN

\* C2: a call made while Open, before timeout has elapsed since
\* last_failure_time, raises the circuit-open rejection, does not run the
\* wrapped function, and leaves every field of the breaker as it was.
C2_OpenRejects ==
    (/\ last.op = "call"
     /\ last.pre.state = OPEN
     /\ last.pre.last_failure_time # None
     /\ Elapsed(last.pre, last.at) < cfg.timeout)
    => /\ last.kind = "raise"
       /\ last.err = "CircuitOpen"
       /\ ~last.invoked
       /\ cb = last.pre

C2_Witness ==
    /\ last.op = "call"
    /\ last.pre.state = OPEN
    /\ Elapsed(last.pre, last.at) = 1
    /\ cfg.timeout = 2
    /\ last.err = "CircuitOpen"
    /\ ~last.invoked

\* C3 as stated: a call made while Open once timeout has elapsed moves the
\* breaker to HalfOpen and then runs the wrapped function instead of
\* rejecting; and a call never takes the breaker from Open to Closed except
\* through HalfOpen.
C3_Stated ==
    /\ (/\ last.op = "call"
        /\ last.pre.state = OPEN
        /\ Elapsed(last.pre, last.at) >= cfg.timeout)
       => /\ last.mid.state = HALF_OPEN
          /\ last.invoked
          /\ last.err \notin Rejections
    /\ (last.op = "call" /\ last.pre.state = OPEN /\ cb.state = CLOSED)
       => last.mid.state = HALF_OPEN

\* C3 amended: a call made while Open once timeout has elapsed moves the
\* breaker to HalfOpen; it then runs the wrapped function when
\* half_open_max_calls >= 1, and with half_open_max_calls = 0 it raises the
\* half-open-limit rejection without running it, leaving the breaker
\* HalfOpen. A call never takes the breaker from Open to Closed except
\* through HalfOpen.
C3_AdmitsAfterTimeout ==
    /\ (/\ last.op = "call"
        /\ last.pre.state = OPEN
        /\ Elapsed(last.pre, last.at) >= cfg.timeout)
       => /\ last.mid.state = HALF_OPEN
          /\ cfg.half_open_max_calls >= 1
             => (last.invoked /\ last.err \notin Rejections)
          /\ cfg.half_open_max_calls = 0
             => (/\ ~last.invoked
                 /\ last.err = "HalfOpenLimit"
                 /\ cb.state = HALF_OPEN)
    /\ (last.op = "call" /\ last.pre.state = OPEN /\ cb.state = CLOSED)
       => last.mid.state = HALF_OPEN

C3_Witness ==
    /\ last.op = "call"
    /\ last.pre.state = OPEN
    /\ cfg.timeout = 2
    /\ Elapsed(last.pre, last.at) = 2
    /\ last.mid.state = HALF_OPEN
    /\ last.invoked
    /\ last.kind = "return"
    /\ cb.state = HALF_OPEN

\* C4: counting from the call that enters HalfOpen, half_open_max_calls
\* consecutive successful calls leave the breaker Closed with all three
\* counters 0, and fewer leave it HalfOpen.
C4_ClosesAfterMaxCalls ==
    hrun >= 1 =>
        IF hrun < cfg.half_open_max_calls
        THEN cb.state = HALF_OPEN
        ELSE /\ hrun = cfg.half_open_max_calls
             /\ cb.state = CLOSED
             /\ Zeroed(cb)

C4_Witness ==
    /\ cfg.half_open_max_calls = 2
    /\ hrun = 2
    /\ last.op = "call" /\ last.kind = "return"
    /\ last.pre.state = HALF_OPEN
    /\ cb.state = CLOSED

\* C5: a wrapped call that fails while the breaker is HalfOpen leaves the
\* breaker Open, whatever the number of trial calls that succeeded before.
C5_HalfOpenFailureOpens ==
    (/\ last.op = "call"
     /\ last.invoked
     /\ last.kind = "raise"
     /\ last.mid.state = HALF_OPEN)
    => cb.state = OPEN

C5_Witness ==
    /\ last.op = "call"
    /\ last.invoked
    /\ last.kind = "raise"
    /\ last.mid.state = HALF_OPEN
    /\ last.mid.success_count = 1
    /\ cfg.failure_threshold = 3
    /\ cb.state = OPEN

\* C7: when the wrapped function raises, the call raises that same error
\* and has recorded one failure: failure_count is one more than when the
\* function was started and last_failure_time is the time of the call.
C7_ErrorPropagates ==
    (last.op = "call" /\ last.invoked /\ last.out \in Errors)
    => /\ last.kind = "raise"
       /\ last.err = last.out
       /\ cb.failure_count = last.mid.failure_count + 1
       /\ cb.last_failure_time = last.at

C7_Witness ==
    /\ last.op = "call"
    /\ last.invoked
    /\ last.out = "ErrB"
    /\ last.err = "ErrB"
    /\ last.mid.failure_count = 1
    /\ cb.failure_count = 2
    /\ last.at = 2

\* C8: reset() from any state leaves the breaker Closed with all three
\* counters 0; the call that follows it runs the wrapped function; and the
\* breaker is Open again after failure_threshold further consecutive
\* failures and not before.
C8_ResetCloses ==
    /\ last.op = "reset" => (cb.state = CLOSED /\ Zeroed(cb))
    /\ (last.op = "call" /\ last.after_reset) => last.invoked
    /\ since_reset >= 0 =>
           IF since_reset < cfg.failure_threshold
           THEN cb.state = CLOSED /\ cb.failure_count = since_reset
           ELSE since_reset = cfg.failure_threshold /\ cb.state = OPEN

C8_Witness ==
    /\ last.op = "reset"
    /\ last.pre.state = OPEN
    /\ last.pre.failure_count = 2
    /\ cb.state = CLOSED

(***************************************************************************)
(* Several threads in call() on one breaker: ConcSpec                      *)
(*                                                                         *)
(* breaker.py takes no lock, so a thread can be preempted between any two  *)
(* statements of call(). A thread stands at                                *)
(*   idle        outside call()                                            *)
(*   to_half     line 67 answered True, line 68 not yet run                *)
(*   check_half  before line 73                                            *)
(*   inc         line 74 passed, line 76 not yet run                       *)
(*   exec        inside the wrapped function, line 80                      *)
(* Statements are taken as atomic; the interleavings inside one statement  *)
(* would only add behaviours.                                              *)
(***************************************************************************)
ConcInit ==
    /\ cfg \in Configs
    /\ BreakerInit
    /\ ThreadsInit
    /\ PoolInit
    /\ RRInit
    /\ ExtInit
    /\ PoolInit
    /\ RRInit

\* The HalfOpen period goes on while the state stays HALF_OPEN; the count of
\* admitted calls restarts when HalfOpen is entered or left.
period_admits(b, b2, n) ==
    IF b.state = HALF_OPEN /\ b2.state = HALF_OPEN THEN n ELSE 0

\* lines 66-70
CheckOpen(t) ==
    /\ pc[t] = "idle"
    /\ pc' = [pc EXCEPT ![t] =
                IF cb.state = OPEN
                THEN IF _should_attempt_reset(cb, now) THEN "to_half" ELSE "idle"
                ELSE "check_half"]
    /\ UNCHANGED <<breaker_vars, admits, lb_vars, ext_vars>>

\* line 68
ToHalfOpen(t) ==
    /\ pc[t] = "to_half"
    /\ cb' = _transition_to_half_open(cb)
    /\ admits' = period_admits(cb, cb', admits)
    /\ pc' = [pc EXCEPT ![t] = "check_half"]
    /\ UNCHANGED <<cfg, now, last, run, hrun, since_reset, lb_vars, ext_vars>>

\* a limit on the calls that have come back with success
half_open_limit_reached_by_returns(b) ==
    b.success_count >= cfg.half_open_max_calls

\* line 73
half_open_limit_reached(b) ==
    b.half_open_calls >= cfg.half_open_max_calls

\* lines 73-75
CheckHalfOpenLimit(t) ==
    /\ pc[t] = "check_half"
    /\ pc' = [pc EXCEPT ![t] =
                IF cb.state = HALF_OPEN
                THEN IF half_open_limit_reached(cb)
                     THEN "idle"
                     ELSE "inc"
                ELSE "exec"]
    /\ UNCHANGED <<breaker_vars, admits, lb_vars, ext_vars>>

\* line 76
IncHalfOpenCalls(t) ==
    /\ pc[t] = "inc"
    /\ cb' = [cb EXCEPT !.half_open_calls = @ + 1]
    /\ admits' = IF cb.state = HALF_OPEN THEN admits + 1 ELSE admits
    /\ pc' = [pc EXCEPT ![t] = "exec"]
    /\ UNCHANGED <<cfg, now, last, run, hrun, since_reset, lb_vars, ext_vars>>

\* lines 80-85: the wrapped function ends with outcome `out`
Finish(t, out) ==
    /\ pc[t] = "exec"
    /\ (cb.state = CLOSED /\ out = "ok") => cb.success_count < MaxSuccess
    /\ cb.failure_count < MaxThreshold + Cardinality(Threads)
    /\ cb' = execute(cb, now, out).b
    /\ admits' = period_admits(cb, cb', admits)
    /\ pc' = [pc EXCEPT ![t] = "idle"]
    /\ UNCHANGED <<cfg, now, last, run, hrun, since_reset, lb_vars, ext_vars>>

ConcTick ==
    /\ now < MaxTime
    /\ now' = now + 1
    /\ UNCHANGED <<cfg, cb, last, run, hrun, since_reset, thread_vars, lb_vars, ext_vars>>

ConcNext ==
    \/ \E t \in Threads : CheckOpen(t)
    \/ \E t \in Threads : ToHalfOpen(t)
    \/ \E t \in Threads : CheckHalfOpenLimit(t)
    \/ \E t \in Threads : IncHalfOpenCalls(t)
    \/ \E t \in Threads, out \in Outcomes : Finish(t, out)
    \/ ConcTick

ConcSpec == ConcInit /\ [][ConcNext]_vars

\* C6: under any interleaving of the threads, at most half_open_max_calls
\* wrapped calls are admitted within one HalfOpen period.
C6_HalfOpenLimitHolds ==
    admits <= cfg.half_open_max_calls

\* C27: a call that passes the HalfOpen check raises half_open_calls by one
\* before its wrapped function starts, and a call that reaches the check
\* while the breaker is HalfOpen with half_open_calls at half_open_max_calls
\* is rejected there and leaves the breaker as it is, whether or not the
\* calls admitted before it have come back.
C27_LimitCountsIssuedCalls ==
    [][\A t \in Threads :
           /\ (/\ pc[t] = "check_half"
               /\ pc'[t] # "check_half"
               /\ cb.state = HALF_OPEN
               /\ cb.half_open_calls >= cfg.half_open_max_calls)
                  => (pc'[t] = "idle" /\ cb' = cb)
           /\ (pc[t] # "exec" /\ pc'[t] = "exec" /\ cb.state = HALF_OPEN)
                  => (pc[t] = "inc"
                      /\ cb'.half_open_calls = cb.half_open_calls + 1)]_vars

\* one call is inside its wrapped function, none has come back, and a second
\* call stands at the check with half_open_calls at the limit of 1
C27_Witness ==
    /\ cfg.half_open_max_calls = 1
    /\ cb.state = HALF_OPEN
    /\ cb.half_open_calls = 1
    /\ cb.success_count = 0
    /\ pc["t1"] = "exec"
    /\ pc["t2"] = "check_half"

(***************************************************************************)
(* One caller of a LoadBalancer with round robin: PoolSpec                 *)
(***************************************************************************)
\* CircuitBreaker's default arguments (breaker.py line 30)
DefaultConfig ==
    [failure_threshold |-> 5, timeout |-> 30, half_open_max_calls |-> 3]

PoolSpecInit ==
    /\ cfg = DefaultConfig
    /\ BreakerInit
    /\ ThreadsInit
    /\ PoolInit
    /\ RRInit
    /\ ExtInit

\* lb.add_instance(name, url), weight left at its default
AddInstance(name) ==
    /\ next_id <= MaxInstances
    /\ instances' = add_instance(instances, next_id, name, 1)
    /\ next_id' = next_id + 1
    /\ picks' = <<>>
    /\ base' = current_index
    /\ UNCHANGED <<current_index, breaker_vars, thread_vars, rr_vars, ext_vars>>

\* lb.remove_instance(name)
RemoveInstance(name) ==
    /\ instances' = remove_instance(instances, name)
    /\ picks' = <<>>
    /\ base' = current_index
    /\ UNCHANGED <<next_id, current_index, breaker_vars, thread_vars, rr_vars, ext_vars>>

\* lb.instances[k].mark_healthy()
MarkHealthy(k) ==
    /\ instances' = [instances EXCEPT ![k] = mark_healthy(@)]
    /\ picks' = <<>>
    /\ base' = current_index
    /\ UNCHANGED <<next_id, current_index, breaker_vars, thread_vars, rr_vars, ext_vars>>

\* lb.instances[k].mark_unhealthy()
MarkUnhealthy(k) ==
    /\ instances[k].consecutive_failures < MaxFailures
    /\ instances' = [instances EXCEPT ![k] = mark_unhealthy(@)]
    /\ picks' = <<>>
    /\ base' = current_index
    /\ UNCHANGED <<next_id, current_index, breaker_vars, thread_vars, rr_vars, ext_vars>>

\* lb.get_next_instance()
GetNextInstance ==
    /\ current_index < MaxSelect
    /\ LET r == get_next_instance(instances, current_index)
       IN  /\ current_index' = r.current_index
           /\ picks' = IF r.instance = NoInstance
                       THEN <<>>
                       ELSE Append(picks, r.instance.id)
    /\ UNCHANGED <<instances, next_id, base, breaker_vars, thread_vars, rr_vars, ext_vars>>

PoolNext ==
    \/ \E name \in Names : AddInstance(name)
    \/ \E name \in Names : RemoveInstance(name)
    \/ \E k \in 1..Len(instances) : MarkHealthy(k)
    \/ \E k \in 1..Len(instances) : MarkUnhealthy(k)
    \/ GetNextInstance

PoolSpec == PoolSpecInit /\ [][PoolNext]_vars

Times(seq, x) == Cardinality({k \in 1..Len(seq) : seq[k] = x})

\* C9: N get_next_instance calls in a row over a healthy list of length L
\* return the list's elements in list order, wrapping around, from the
\* first element when the cursor started at 0, and each element is returned
\* floor(N/L) or ceil(N/L) times.
C9_RoundRobinRotation ==
    LET h == get_healthy_instances(instances)
        L == Len(h)
        N == Len(picks)
    IN  N >= 1 =>
            /\ L >= 1
            /\ \A k \in 1..N : picks[k] = h[((base + k - 1) % L) + 1].id
            /\ base = 0 => picks[1] = h[1].id
            /\ \A j \in 1..L :
                   Times(picks, h[j].id) \in {N \div L, (N + L - 1) \div L}

C9_Witness ==
    /\ Len(get_healthy_instances(instances)) = 3
    /\ base = 0
    /\ picks = <<1, 2, 3, 1, 2>>

(***************************************************************************)
(* Several threads in RoundRobinAlgorithm.select_instance: RRSpec          *)
(*                                                                         *)
(* A thread stands at                                                      *)
(*   idle     outside select_instance                                      *)
(*   lock     at `with self._lock`, line 49                                *)
(*   index    holding the lock, before line 51                             *)
(*   advance  holding the lock, before line 54                             *)
(*   release  leaving the with block                                       *)
(* The list a thread passes holds the identities of the instances.         *)
(***************************************************************************)
RECURSIVE SeqOf(_)
SeqOf(S) ==
    IF S = {}
    THEN <<>>
    ELSE LET m == CHOOSE x \in S : \A y \in S : x <= y
         IN  <<m>> \o SeqOf(S \ {m})

\* The healthy lists of a pool of MaxInstances instances: its subsequences.
HealthyLists == {SeqOf(S) : S \in SUBSET (1..MaxInstances)}

RRSpecInit ==
    /\ cfg = DefaultConfig
    /\ BreakerInit
    /\ ThreadsInit
    /\ PoolInit
    /\ RRInit
    /\ ExtInit

\* lines 46-47
RREnter(t, list) ==
    /\ rr_pc[t] = "idle"
    /\ Len(rr_used) < MaxSelect
    /\ rr_list' = [rr_list EXCEPT ![t] = list]
    /\ rr_pc' = [rr_pc EXCEPT ![t] = IF list = <<>> THEN "idle" ELSE "lock"]
    /\ UNCHANGED <<rr_lock, rr_got, rr_used, pool_vars, breaker_vars, thread_vars, ext_vars>>

\* line 49
RRAcquire(t) ==
    /\ rr_pc[t] = "lock"
    /\ lock_is_free(rr_lock)
    /\ rr_lock' = t
    /\ rr_pc' = [rr_pc EXCEPT ![t] = "index"]
    /\ UNCHANGED <<rr_list, rr_got, rr_used, pool_vars, breaker_vars, thread_vars, ext_vars>>

\* line 51
RRIndex(t) ==
    /\ rr_pc[t] = "index"
    /\ rr_got' = [rr_got EXCEPT ![t] =
                     [instance |-> select_index(rr_list[t], current_index),
                      cursor |-> current_index]]
    /\ rr_used' = Append(rr_used, current_index)
    /\ rr_pc' = [rr_pc EXCEPT ![t] = "advance"]
    /\ UNCHANGED <<rr_lock, rr_list, pool_vars, breaker_vars, thread_vars, ext_vars>>

\* line 54
RRAdvance(t) ==
    /\ rr_pc[t] = "advance"
    /\ current_index' = next_index(current_index)
    /\ rr_pc' = [rr_pc EXCEPT ![t] = "release"]
    /\ UNCHANGED <<rr_lock, rr_list, rr_got, rr_used, instances, next_id,
                   picks, base, breaker_vars, thread_vars, ext_vars>>

\* the end of the with block, and line 56
RRRelease(t) ==
    /\ rr_pc[t] = "release"
    /\ rr_lock' = Free
    /\ rr_pc' = [rr_pc EXCEPT ![t] = "idle"]
    /\ UNCHANGED <<rr_list, rr_got, rr_used, pool_vars, breaker_vars, thread_vars, ext_vars>>

RRNext ==
    \/ \E t \in Threads, list \in HealthyLists : RREnter(t, list)
    \/ \E t \in Threads : RRAcquire(t)
    \/ \E t \in Threads : RRIndex(t)
    \/ \E t \in Threads : RRAdvance(t)
    \/ \E t \in Threads : RRRelease(t)

RRSpec == RRSpecInit /\ [][RRNext]_vars

\* C10: under any interleaving of the threads, no two select_instance calls
\* read the same cursor value: the k-th call to index the list reads k - 1,
\* and what a call returns is its list's element at the value it read.
C10_CursorUsedOnce ==
    /\ \A i, j \in 1..Len(rr_used) : i # j => rr_used[i] # rr_used[j]
    /\ \A k \in 1..Len(rr_used) : rr_used[k] = k - 1
    /\ \A t \in Threads :
           rr_pc[t] \in {"advance", "release"} =>
               rr_got[t].instance =
                   rr_list[t][(rr_got[t].cursor % Len(rr_list[t])) + 1]

C10_Witness ==
    /\ rr_pc["t1"] = "advance"
    /\ rr_pc["t2"] = "lock"
    /\ rr_list["t1"] = <<1, 2, 3>>
    /\ rr_list["t2"] = <<1, 2, 3>>
    /\ rr_used = <<0, 1, 2, 3>>
    /\ rr_got["t1"].instance = 1

(***************************************************************************)
(* One caller of a LoadBalancer with weighted round robin: WeightedSpec    *)
(*                                                                         *)
(* picks holds the instances returned since the healthy list last changed. *)
(***************************************************************************)
\* the weights instances are created with
Weights == {0, 1, 3}

WeightedSpecInit ==
    /\ cfg = DefaultConfig
    /\ BreakerInit
    /\ ThreadsInit
    /\ PoolInit
    /\ RRInit
    /\ AlgInit("weighted")
    /\ HealthInit(3)
    /\ DispatchInit
    /\ MgmtInit

\* lb.add_instance(name, url, weight)
AddWeighted(name, weight) ==
    /\ next_id <= MaxWeighted
    /\ instances' = add_instance(instances, next_id, name, weight)
    /\ next_id' = next_id + 1
    /\ picks' = <<>>
    /\ base' = current_index
    /\ UNCHANGED <<current_index, breaker_vars, thread_vars, rr_vars, ext_vars>>

\* lb.get_next_instance() with the weighted algorithm
WeightedSelect ==
    /\ current_index < MaxWeightedSelect
    /\ Len(picks) < MaxWeightedSelect
    /\ LET r == weighted_select_instance(get_healthy_instances(instances),
                     current_index, weighted_instances, last_instances)
       IN  /\ current_index' = r.current_index
           /\ weighted_instances' = r.weighted_instances
           /\ last_instances' = r.last_instances
           /\ picks' = IF r.instance = NoInstance
                       THEN <<>>
                       ELSE Append(picks, r.instance.id)
    /\ UNCHANGED <<instances, next_id, base, algorithm, sel, health_vars, dispatch_vars,
                   breaker_vars, thread_vars, rr_vars, mgmt_vars>>

WeightedNext ==
    \/ \E name \in Names, weight \in Weights : AddWeighted(name, weight)
    \/ \E name \in Names : RemoveInstance(name)
    \/ \E k \in 1..Len(instances) : MarkHealthy(k)
    \/ WeightedSelect

WeightedSpec == WeightedSpecInit /\ [][WeightedNext]_vars

RECURSIVE SumWeights(_)
SumWeights(list) ==
    IF list = <<>> THEN 0 ELSE Head(list).weight + SumWeights(Tail(list))

\* C11: over a healthy list that does not change and whose weights are all
\* at least 1 and sum to W, every k*W get_next_instance calls in a row return
\* each instance exactly k times its weight.
C11_WeightedProportion ==
    LET h == get_healthy_instances(instances)
        W == SumWeights(h)
        N == Len(picks)
    IN  (h # <<>> /\ \A j \in 1..Len(h) : h[j].weight >= 1) =>
            \A i \in 1..N : \A k \in 1..(N \div W) :
                i + k * W - 1 <= N =>
                    \A j \in 1..Len(h) :
                        Times(SubSeq(picks, i, i + k * W - 1), h[j].id)
                            = k * h[j].weight

\* weights [3, 1] over two instances, 12 selections: 9 and 3
C11_Witness ==
    LET h == get_healthy_instances(instances)
    IN  /\ Len(h) = 2
        /\ h[1].weight = 3
        /\ h[2].weight = 1
        /\ Len(picks) = 12
        /\ Times(picks, h[1].id) = 9
        /\ Times(picks, h[2].id) = 3

(***************************************************************************)
(* One caller of a LoadBalancer with any algorithm: AlgSpec                *)
(*                                                                         *)
(* The algorithm is chosen when the balancer is built. sel is the last     *)
(* get_next_instance result and picks the instances returned in a row;     *)
(* both are forgotten when anything an algorithm reads changes. The        *)
(* connection count and the request counters are moved only under the      *)
(* algorithm that reads them: the others never look at them.               *)
(***************************************************************************)
\* a name get_algorithm does not know
OtherName == "fastest"

\* the response times recorded: a failure at 0 (balancer.py line 142),
\* a success at 2
RecordOutcomes == {<<FALSE, 0>>, <<TRUE, 2>>}

AlgSpecInit ==
    /\ cfg = DefaultConfig
    /\ BreakerInit
    /\ ThreadsInit
    /\ PoolInit
    /\ RRInit
    /\ \E name \in AlgorithmNames \cup {OtherName} : AlgInit(name)
    /\ HealthInit(3)
    /\ DispatchInit
    /\ MgmtInit

RECURSIVE TotalConnections(_)
TotalConnections(insts) ==
    IF insts = <<>>
    THEN 0
    ELSE Head(insts).active_connections + TotalConnections(Tail(insts))

RECURSIVE TotalRequests(_)
TotalRequests(insts) ==
    IF insts = <<>>
    THEN 0
    ELSE Head(insts).total_requests + TotalRequests(Tail(insts))

\* what every step but a selection does to the history
Forget ==
    /\ sel' = NoSel
    /\ picks' = <<>>
    /\ UNCHANGED <<next_id, current_index, base, algorithm,
                   weighted_instances, last_instances, health_vars, dispatch_vars,
                   breaker_vars, thread_vars, rr_vars, mgmt_vars>>

\* the name the caller gives the instance it adds: a, b, a, ...; a name
\* comes back, as add_instance accepts a name that is already in the pool
NameFor(id) == IF id % 2 = 1 THEN "a" ELSE "b"

\* lb.add_instance(name, url, weight)
AlgAdd(name, weight) ==
    /\ next_id <= MaxAlgInstances
    /\ weight = 1 \/ get_algorithm(algorithm) = "weighted"
    /\ instances' = add_instance(instances, next_id, name, weight)
    /\ next_id' = next_id + 1
    /\ sel' = NoSel
    /\ picks' = <<>>
    /\ UNCHANGED <<current_index, base, algorithm, weighted_instances,
                   last_instances, health_vars, dispatch_vars, breaker_vars, thread_vars,
                   rr_vars, mgmt_vars>>

\* lb.remove_instance(name)
AlgRemove(name) ==
    /\ instances' = remove_instance(instances, name)
    /\ Forget

\* lb.instances[k].mark_healthy()
AlgMarkHealthy(k) ==
    /\ instances' = [instances EXCEPT ![k] = mark_healthy(@)]
    /\ Forget

\* lb.instances[k].mark_unhealthy()
AlgMarkUnhealthy(k) ==
    /\ instances[k].consecutive_failures < MaxFailures
    /\ instances' = [instances EXCEPT ![k] = mark_unhealthy(@)]
    /\ Forget

\* lb.instances[k].mark_degraded()
AlgMarkDegraded(k) ==
    /\ instances' = [instances EXCEPT ![k] = mark_degraded(@)]
    /\ Forget

\* lb.instances[k].increment_connections()
AlgIncrement(k) ==
    /\ get_algorithm(algorithm) = "least_connections"
    /\ TotalConnections(instances) < MaxConnections
    /\ instances' = [instances EXCEPT ![k] = increment_connections(@)]
    /\ Forget

\* lb.instances[k].decrement_connections()
AlgDecrement(k) ==
    /\ get_algorithm(algorithm) = "least_connections"
    /\ instances' = [instances EXCEPT ![k] = decrement_connections(@)]
    /\ Forget

\* lb.instances[k].record_request(success, response_time)
AlgRecord(k, success, response_time) ==
    /\ get_algorithm(algorithm) = "least_response_time"
    /\ TotalRequests(instances) < MaxRequests
    /\ instances' =
           [instances EXCEPT ![k] = record_request(@, success, response_time)]
    /\ Forget

\* lb.get_next_instance(); r is what random.choice() draws
AlgGetNextInstance(r) ==
    /\ current_index < MaxAlgSelect
    /\ Len(picks) < MaxAlgSelect
    /\ \/ r = 1
       \/ /\ get_algorithm(algorithm) = "random"
          /\ r <= Len(get_healthy_instances(instances))
    /\ LET got == get_next_instance_of(algorithm, instances, current_index,
                       weighted_instances, last_instances, r)
       IN  /\ current_index' = got.current_index
           /\ weighted_instances' = got.weighted_instances
           /\ last_instances' = got.last_instances
           /\ sel' = [op |-> "select", instance |-> got.instance.id]
           /\ picks' = IF got.instance = NoInstance
                       THEN <<>>
                       ELSE Append(picks, got.instance.id)
    /\ UNCHANGED <<instances, next_id, base, algorithm, health_vars, dispatch_vars,
                   breaker_vars, thread_vars, rr_vars, mgmt_vars>>

AlgNext ==
    \/ \E weight \in Weights : AlgAdd(NameFor(next_id), weight)
    \/ \E name \in Names : AlgRemove(name)
    \/ \E k \in 1..Len(instances) : AlgMarkHealthy(k)
    \/ \E k \in 1..Len(instances) : AlgMarkUnhealthy(k)
    \/ \E k \in 1..Len(instances) : AlgMarkDegraded(k)
    \/ \E k \in 1..Len(instances) : AlgIncrement(k)
    \/ \E k \in 1..Len(instances) : AlgDecrement(k)
    \/ \E k \in 1..Len(instances), o \in RecordOutcomes :
           AlgRecord(k, o[1], o[2])
    \/ \E r \in 1..MaxAlgInstances : AlgGetNextInstance(r)

AlgSpec == AlgSpecInit /\ [][AlgNext]_vars

\* the positions of the pool whose instance is Healthy
HealthyPositions == {k \in 1..Len(instances) : instances[k].health_status = HEALTHY}

\* C12: least connections returns a healthy instance with the fewest active
\* connections, the first such in pool order, and returns it again for as
\* long as nothing changes.
C12_LeastConnectionsFirstMin ==
    (get_algorithm(algorithm) = "least_connections" /\ picks # <<>>) =>
        \E k \in HealthyPositions :
            /\ \A n \in 1..Len(picks) : picks[n] = instances[k].id
            /\ sel.instance = instances[k].id
            /\ \A j \in HealthyPositions :
                   /\ instances[k].active_connections
                          <= instances[j].active_connections
                   /\ j < k => instances[k].active_connections
                                   < instances[j].active_connections

\* two healthy instances share the minimum and the first is returned twice;
\* or the second has fewer connections and is returned
C12_Witness ==
    /\ get_algorithm(algorithm) = "least_connections"
    /\ Len(instances) = 2
    /\ HealthyPositions = {1, 2}
    /\ instances[1].active_connections = 1
    /\ instances[2].active_connections = 1
    /\ picks = <<instances[1].id, instances[1].id>>

\* C13: under every algorithm get_next_instance returns an instance of the
\* pool that is Healthy, and returns None exactly when the pool has no
\* Healthy instance.
C13_SelectsHealthyPooled ==
    sel.op = "select" =>
        IF HealthyPositions = {}
        THEN sel.instance = NoInstance.id
        ELSE \E k \in HealthyPositions : sel.instance = instances[k].id

\* random choice over a pool whose first instance is Degraded
C13_Witness ==
    /\ get_algorithm(algorithm) = "random"
    /\ Len(instances) = 2
    /\ instances[1].health_status = DEGRADED
    /\ instances[2].health_status = HEALTHY
    /\ sel = [op |-> "select", instance |-> instances[2].id]

(***************************************************************************)
(* The health checker over a pool: HealthSpec                              *)
(*                                                                         *)
(* probe is the last check_instance_health call: its outcome and the       *)
(* instance before and after it.                                           *)
(***************************************************************************)
\* the unhealthy_threshold values a HealthChecker is built with
Thresholds == {0, 1, 3}

HealthSpecInit ==
    /\ cfg = DefaultConfig
    /\ BreakerInit
    /\ ThreadsInit
    /\ PoolInit
    /\ RRInit
    /\ AlgInit("round_robin")
    /\ \E n \in Thresholds : HealthInit(n)
    /\ DispatchInit
    /\ MgmtInit

\* lb.add_instance(name, url)
HealthAdd(name) ==
    /\ next_id <= MaxHealthInstances
    /\ instances' = add_instance(instances, next_id, name, 1)
    /\ next_id' = next_id + 1
    /\ probe' = NoProbe
    /\ UNCHANGED <<current_index, picks, base, unhealthy_threshold, cycle, lifecycle_vars, alg_vars, dispatch_vars,
                   breaker_vars, thread_vars, rr_vars, mgmt_vars>>

\* lb.instances[k].mark_degraded()
HealthMarkDegraded(k) ==
    /\ instances' = [instances EXCEPT ![k] = mark_degraded(@)]
    /\ probe' = [op |-> "degrade", outcome |-> Raised("none"),
                 pre |-> instances[k], post |-> mark_degraded(instances[k]),
                 escalated |-> FALSE]
    /\ UNCHANGED <<next_id, current_index, picks, base, unhealthy_threshold, cycle, lifecycle_vars,
                   alg_vars, dispatch_vars, breaker_vars, thread_vars, rr_vars, mgmt_vars>>

\* health_checker.check_instance_health(lb.instances[k]), as
\* check_all_instances calls it for every k
CheckInstanceHealth(k, outcome) ==
    /\ instances[k].consecutive_failures < MaxProbeFailures
    /\ LET post == check_instance_health(instances[k], outcome,
                                         unhealthy_threshold)
       IN  /\ instances' = [instances EXCEPT ![k] = post]
           /\ probe' = [op |-> "probe", outcome |-> outcome,
                        pre |-> instances[k], post |-> post,
                        escalated |-> escalation_logged(instances[k], outcome,
                                                        unhealthy_threshold)]
    /\ UNCHANGED <<next_id, current_index, picks, base, unhealthy_threshold, cycle, lifecycle_vars,
                   alg_vars, dispatch_vars, breaker_vars, thread_vars, rr_vars, mgmt_vars>>

HealthNext ==
    \/ HealthAdd(NameFor(next_id))
    \/ \E k \in 1..Len(instances) : HealthMarkDegraded(k)
    \/ \E k \in 1..Len(instances), outcome \in ProbeOutcomes :
           CheckInstanceHealth(k, outcome)

HealthSpec == HealthSpecInit /\ [][HealthNext]_vars

\* a response with a 2xx status
Success(outcome) ==
    outcome.kind = "response" /\ outcome.status_code \in 200..299

C15_SuccessfulProbeMarksHealthy ==
    (probe.op = "probe" /\ Success(probe.outcome)) =>
        /\ probe.post.health_status = HEALTHY
        /\ probe.post.consecutive_failures = 0

\* C28: a failed probe is followed by the ERROR record of the escalation
\* exactly when it leaves consecutive_failures at unhealthy_threshold or
\* above.
C28_EscalatesAtThreshold ==
    (probe.op = "probe" /\ ~Success(probe.outcome)) =>
        (probe.escalated
             <=> probe.post.consecutive_failures >= unhealthy_threshold)

\* C29: no probe leaves an instance Degraded; mark_degraded makes it so and
\* keeps consecutive_failures; a Degraded instance is not among the healthy
\* instances and stays Degraded until a probe marks it Healthy or Unhealthy.
C29_DegradedOnlyByMark ==
    /\ [](/\ probe.op = "probe" => probe.post.health_status # DEGRADED
          /\ probe.op = "degrade" =>
                 /\ probe.post.health_status = DEGRADED
                 /\ probe.post.consecutive_failures
                        = probe.pre.consecutive_failures
          /\ \A k \in 1..Len(instances) :
                 instances[k].health_status = DEGRADED =>
                     \A j \in 1..Len(get_healthy_instances(instances)) :
                         get_healthy_instances(instances)[j].id # instances[k].id)
    /\ [][\A k \in 1..Len(instances) :
              /\ (instances[k].health_status # DEGRADED
                  /\ instances'[k].health_status = DEGRADED)
                     => probe'.op = "degrade"
              /\ (instances[k].health_status = DEGRADED
                  /\ instances'[k].health_status # DEGRADED)
                     => (/\ probe'.op = "probe"
                         /\ instances'[k].health_status \in {HEALTHY, UNHEALTHY})]_vars

\* an instance with two failed probes behind it was marked Degraded and has
\* kept them
C29_Witness ==
    /\ probe.op = "degrade"
    /\ probe.pre.health_status = UNHEALTHY
    /\ probe.pre.consecutive_failures = 2
    /\ probe.post.health_status = DEGRADED
    /\ probe.post.consecutive_failures = 2

(***************************************************************************)
(* Several threads in forward_request on one LoadBalancer: DispatchSpec    *)
(*                                                                         *)
(* ServiceInstance takes no lock, so `x += 1` and `x = max(0, x - 1)` are  *)
(* a read and a later write, and another thread can run between the two.   *)
(* A thread stands at                                                      *)
(*   idle       outside forward_request                                    *)
(*   inc        in increment_connections, line 105                         *)
(*   request    before requests.get/post/request, lines 114-119            *)
(*   rec_total  in record_request, at total_requests += 1                  *)
(*   rec_kind   in record_request, at successful_/failed_requests += 1     *)
(*   rec_time   in record_request, at total_response_time += response_time *)
(*   dec        in decrement_connections                                   *)
(*   json       before response.json(), line 130                           *)
(* and `half` tells whether it has read the field it is updating. handler  *)
(* is the block it runs: try, or the except clause for a timeout or for a  *)
(* failed request. An instance removed from the pool stays in `removed`,   *)
(* where the threads that hold it still update it.                         *)
(***************************************************************************)
\* the statuses a backend answers with
DispatchCodes == {200, 500}

\* the time a request that is answered takes
ResponseTimes == {1}

\* what requests.get/post/request does: answers, or raises
CallOutcomes ==
    {Response(code) : code \in DispatchCodes}
        \cup {Raised("Timeout"), Raised("ConnectionError")}

\* a LoadBalancer('round_robin') after add_instance("a", url) and a probe
\* that found the instance healthy: one instance, shared by all threads
DispatchSpecInit ==
    /\ cfg = DefaultConfig
    /\ BreakerInit
    /\ ThreadsInit
    /\ instances = <<mark_healthy(NewInstance(1, "a", 1))>>
    /\ next_id = 2
    /\ current_index = 0
    /\ picks = <<>>
    /\ base = 0
    /\ RRInit
    /\ AlgInit("round_robin")
    /\ HealthInit(3)
    /\ DispatchInit
    /\ MgmtInit

\* every instance object there is, in the pool or out of it
Objects == instances \o removed

\* the instance with identity id
Obj(id) == ById(Objects, id)

\* the list with the field of instance id set to v
Put(list, id, field, v) ==
    [k \in 1..Len(list) |->
        IF list[k].id = id THEN [list[k] EXCEPT ![field] = v] ELSE list[k]]

\* the field a thread is updating
FieldAt(th) ==
    CASE th.pc = "inc" -> "active_connections"
      [] th.pc = "rec_total" -> "total_requests"
      [] th.pc = "rec_kind" ->
             IF th.success THEN "successful_requests" ELSE "failed_requests"
      [] th.pc = "rec_time" -> "total_response_time"
      [] th.pc = "dec" -> "active_connections"

\* the value it writes, from the value it read
ValueAt(th) ==
    CASE th.pc = "inc" -> incremented(th.tmp)
      [] th.pc = "rec_total" -> th.tmp + 1
      [] th.pc = "rec_kind" -> th.tmp + 1
      [] th.pc = "rec_time" -> th.tmp + th.response_time
      [] th.pc = "dec" -> decremented(th.tmp)

\* an exception of class `class` is raised inside the try block: the thread
\* enters the except clause that catches it, or leaves forward_request
Raise(th, class) ==
    IF handler_for(class) = "none"
    THEN IdleThread
    ELSE [th EXCEPT !.pc = "rec_total", !.half = "read",
                    !.handler = handler_for(class),
                    !.success = FALSE,
                    !.response_time = IF handler_for(class) = "timeout"
                                      THEN DefaultTimeout
                                      ELSE 0]

\* the thread after the write that ends its update; after
\* decrement_connections in an except clause forward_request returns
AfterWrite(th) ==
    CASE th.pc = "inc" -> [th EXCEPT !.pc = "request"]
      [] th.pc = "rec_total" -> [th EXCEPT !.pc = "rec_kind"]
      [] th.pc = "rec_kind" -> [th EXCEPT !.pc = "rec_time"]
      [] th.pc = "rec_time" -> [th EXCEPT !.pc = "dec"]
      [] th.pc = "dec" ->
             IF th.handler = "try" THEN [th EXCEPT !.pc = "json"] ELSE IdleThread

UpdateSteps == {"inc", "rec_total", "rec_kind", "rec_time", "dec"}

\* instances that leave the pool as new objects with their counters at zero
detached_afresh(insts, name) ==
    LET out == SelectSeq(insts, LAMBDA i : i.name = name)
    IN  [k \in 1..Len(out) |->
            [NewInstance(out[k].id, out[k].name, out[k].weight)
                 EXCEPT !.health_status = out[k].health_status]]

\* the instances remove_instance(name) drops from the pool: the objects
\* themselves, which live on while a caller holds them
detached(insts, name) == SelectSeq(insts, LAMBDA i : i.name = name)

\* lb.remove_instance(name)
DRemove(name) ==
    /\ instances' = remove_instance(instances, name)
    /\ removed' = removed \o detached(instances, name)
    /\ UNCHANGED <<next_id, current_index, picks, base, alg_vars, health_vars,
                   started, d, fwd, breaker_vars, thread_vars, rr_vars, mgmt_vars>>

\* lines 96-102: get_next_instance(), and the 503 return when it gives None
DStart(t) ==
    /\ d[t].pc = "idle"
    /\ started < MaxDispatches
    /\ started' = started + 1
    /\ LET got == get_next_instance(instances, current_index)
       IN  /\ current_index' = got.current_index
           /\ d' = [d EXCEPT ![t] =
                        IF got.instance = NoInstance
                        THEN IdleThread
                        ELSE [IdleThread EXCEPT !.pc = "inc",
                                                !.instance = got.instance.id]]
    /\ UNCHANGED <<instances, next_id, picks, base, removed, fwd, alg_vars,
                   health_vars, breaker_vars, thread_vars, rr_vars, mgmt_vars>>

\* the read of a field update
DRead(t) ==
    /\ d[t].pc \in UpdateSteps
    /\ d[t].half = "read"
    /\ d' = [d EXCEPT ![t].tmp = Obj(d[t].instance)[FieldAt(d[t])],
                      ![t].half = "write"]
    /\ UNCHANGED <<pool_vars, removed, started, fwd, alg_vars, health_vars,
                   breaker_vars, thread_vars, rr_vars, mgmt_vars>>

\* the write of a field update
DWrite(t) ==
    /\ d[t].pc \in UpdateSteps
    /\ d[t].half = "write"
    /\ instances' = Put(instances, d[t].instance, FieldAt(d[t]), ValueAt(d[t]))
    /\ removed' = Put(removed, d[t].instance, FieldAt(d[t]), ValueAt(d[t]))
    /\ d' = [d EXCEPT ![t] = [AfterWrite(d[t]) EXCEPT !.half = "read",
                                                      !.tmp = 0]]
    /\ UNCHANGED <<next_id, current_index, picks, base, started, fwd,
                   alg_vars, health_vars, breaker_vars, thread_vars, rr_vars, mgmt_vars>>

\* lines 114-124: the request is answered, or raises
DRequest(t, outcome, response_time) ==
    /\ d[t].pc = "request"
    /\ d' = [d EXCEPT ![t] =
                 IF outcome.kind = "response"
                 THEN [d[t] EXCEPT !.pc = "rec_total",
                                   !.success = outcome.status_code < 400,
                                   !.response_time = response_time]
                 ELSE Raise(d[t], outcome.kind)]
    /\ UNCHANGED <<pool_vars, removed, started, fwd, alg_vars, health_vars,
                   breaker_vars, thread_vars, rr_vars, mgmt_vars>>

\* line 130: response.json() returns the body, or raises on a body that is
\* not JSON
DJson(t, decoded) ==
    /\ d[t].pc = "json"
    /\ d' = [d EXCEPT ![t] =
                 IF decoded
                 THEN IdleThread
                 ELSE Raise(d[t], "JSONDecodeError")]
    /\ UNCHANGED <<pool_vars, removed, started, fwd, alg_vars, health_vars,
                   breaker_vars, thread_vars, rr_vars, mgmt_vars>>

DispatchNext ==
    \/ \E name \in Names : DRemove(name)
    \/ \E t \in Threads : DStart(t)
    \/ \E t \in Threads : DRead(t)
    \/ \E t \in Threads : DWrite(t)
    \/ \E t \in Threads, outcome \in CallOutcomes, rt \in ResponseTimes :
           DRequest(t, outcome, rt)
    \/ \E t \in Threads, decoded \in BOOLEAN : DJson(t, decoded)

DispatchSpec == DispatchSpecInit /\ [][DispatchNext]_vars

\* C16: active_connections of every instance, in the pool or removed from
\* it, is never negative.
C16_ConnectionsNonNegative ==
    \A k \in 1..Len(Objects) : Objects[k].active_connections >= 0

\* a thread about to write max(0, 0 - 1) to an instance that has been removed
C16_Witness ==
    /\ removed # <<>>
    /\ \E t \in Threads :
           /\ d[t].pc = "dec"
           /\ d[t].half = "write"
           /\ d[t].tmp = 0
           /\ d[t].instance = removed[1].id

\* the threads inside record_request on the instance with identity id
Recording(id) ==
    {t \in Threads : d[t].instance = id
                         /\ d[t].pc \in {"rec_total", "rec_kind", "rec_time"}}

\* C17: whenever no record_request call on an instance is part-way through,
\* its successful_requests and failed_requests add up to total_requests.
C17_CountersAddUp ==
    \A k \in 1..Len(Objects) :
        Recording(Objects[k].id) = {} =>
            Objects[k].successful_requests + Objects[k].failed_requests
                = Objects[k].total_requests

\* the threads inside forward_request with the instance of identity id
Dispatching(id) ==
    {t \in Threads : d[t].instance = id /\ d[t].pc # "idle"}

\* those of them between the read and the write of an update of
\* active_connections
Updating(id) ==
    {t \in Dispatching(id) : d[t].pc \in {"inc", "dec"} /\ d[t].half = "write"}

\* those of them that have opened a connection and not released it
Holding(id) ==
    {t \in Dispatching(id) :
         d[t].pc \in {"request", "rec_total", "rec_kind", "rec_time", "dec"}}

\* C31: whenever no update of active_connections of an instance is part-way
\* through and its dispatches are in the try block, active_connections is
\* the number of dispatches that hold a connection to it; it is 0 once all
\* dispatches to it have returned.
C31_NoLostConnectionUpdate ==
    \A k \in 1..Len(Objects) :
        LET id == Objects[k].id
        IN  /\ (Updating(id) = {}
                    /\ \A t \in Dispatching(id) : d[t].handler = "try")
                   => Objects[k].active_connections = Cardinality(Holding(id))
            /\ Dispatching(id) = {} => Objects[k].active_connections = 0

(***************************************************************************)
(* One caller of forward_request: ForwardSpec                              *)
(*                                                                         *)
(* fwd is the last forward_request call: what it returned, how often it    *)
(* called increment_connections, record_request and decrement_connections, *)
(* and active_connections of the instance before and after.                *)
(***************************************************************************)
ForwardSpecInit ==
    /\ cfg = DefaultConfig
    /\ BreakerInit
    /\ ThreadsInit
    /\ PoolInit
    /\ RRInit
    /\ AlgInit("round_robin")
    /\ HealthInit(3)
    /\ DispatchInit
    /\ MgmtInit

\* what the steps around forward_request leave alone
ForwardFrame ==
    /\ fwd' = NoForward
    /\ UNCHANGED <<current_index, picks, base, removed, started, d, alg_vars,
                   health_vars, breaker_vars, thread_vars, rr_vars, mgmt_vars>>

\* lb.add_instance(name, url)
FAdd(name) ==
    /\ next_id <= MaxForwardInstances
    /\ instances' = add_instance(instances, next_id, name, 1)
    /\ next_id' = next_id + 1
    /\ ForwardFrame

\* lb.remove_instance(name)
FRemove(name) ==
    /\ instances' = remove_instance(instances, name)
    /\ UNCHANGED next_id
    /\ ForwardFrame

\* lb.instances[k].mark_healthy()
FMarkHealthy(k) ==
    /\ instances' = [instances EXCEPT ![k] = mark_healthy(@)]
    /\ UNCHANGED next_id
    /\ ForwardFrame

\* lb.instances[k].mark_unhealthy()
FMarkUnhealthy(k) ==
    /\ instances[k].consecutive_failures < MaxFailures
    /\ instances' = [instances EXCEPT ![k] = mark_unhealthy(@)]
    /\ UNCHANGED next_id
    /\ ForwardFrame

\* lb.forward_request(path)
Forward(outcome, response_time, decoded) ==
    /\ started < MaxForwards
    /\ started' = started + 1
    /\ LET r == forward_request(instances, current_index, outcome,
                                response_time, decoded)
       IN  /\ instances' = r.instances
           /\ current_index' = r.current_index
           /\ fwd' = r.call
    /\ UNCHANGED <<next_id, picks, base, removed, d, alg_vars, health_vars,
                   breaker_vars, thread_vars, rr_vars, mgmt_vars>>

ForwardNext ==
    \/ FAdd(NameFor(next_id))
    \/ \E name \in Names : FRemove(name)
    \/ \E k \in 1..Len(instances) : FMarkHealthy(k)
    \/ \E k \in 1..Len(instances) : FMarkUnhealthy(k)
    \/ \E outcome \in CallOutcomes, rt \in ResponseTimes, decoded \in BOOLEAN :
           Forward(outcome, rt, decoded)

ForwardSpec == ForwardSpecInit /\ [][ForwardNext]_vars

\* C18: a forward_request call that incremented active_connections
\* decrements it exactly once, whatever the request and the decoding of the
\* response do, and leaves it as it was.
C18_DecrementsOnce ==
    (fwd.op = "forward" /\ fwd.increments = 1) =>
        /\ fwd.decrements = 1
        /\ fwd.after = fwd.before

\* C19: forward_request does not raise: it returns the response with its
\* status, or an error with 503 exactly when no instance was selected, 504
\* exactly when the request timed out, and 502 for any other failure.
C19_NeverRaises ==
    fwd.op = "forward" =>
        /\ fwd.kind \in {"result", "error"}
        /\ fwd.kind = "error" => fwd.code \in {502, 503, 504}
        /\ (fwd.kind = "error" /\ fwd.code = 503) <=> fwd.instance = 0

\* a transport error on a selected instance, returned as 502
C19_Witness ==
    /\ fwd.op = "forward"
    /\ fwd.instance # 0
    /\ fwd.kind = "error"
    /\ fwd.code = 502
    /\ fwd.records = 1

\* C32: a forward_request call that obtained an instance calls
\* record_request exactly once, and a call that found no healthy instance
\* calls neither record_request nor the connection counters.
C32_OneOutcomePerDispatch ==
    fwd.op = "forward" =>
        /\ fwd.instance # 0 => fwd.records = 1
        /\ fwd.instance = 0 =>
               fwd.records = 0 /\ fwd.increments = 0 /\ fwd.decrements = 0

(***************************************************************************)
(* The names in the pool, under PoolSpec                                   *)
(***************************************************************************)
\* C20: no two instances in the pool have the same name.
C20_NamesUnique ==
    \A j, k \in 1..Len(instances) :
        j # k => instances[j].name # instances[k].name

(***************************************************************************)
(* RegistrySpec: one caller adding and removing instances of a             *)
(* LoadBalancer while their health changes.  reg remembers the last        *)
(* add_instance or remove_instance call and the pool it found.             *)
(***************************************************************************)
RegistrySpecInit ==
    /\ cfg = DefaultConfig
    /\ BreakerInit
    /\ ThreadsInit
    /\ PoolInit
    /\ RRInit
    /\ ExtInit

RegistryFrame ==
    UNCHANGED <<current_index, picks, base, breaker_vars, thread_vars, rr_vars,
                alg_vars, health_vars, dispatch_vars, failover_vars>>

\* lb.add_instance(name, url)
RegAdd(name) ==
    /\ next_id <= MaxRegistry
    /\ instances' = add_instance(instances, next_id, name, 1)
    /\ next_id' = next_id + 1
    /\ reg' = [op |-> "add", name |-> name, pre |-> instances]
    /\ RegistryFrame

\* lb.remove_instance(name), for a name of the pool or any other name
RegRemove(name) ==
    /\ instances' = remove_instance(instances, name)
    /\ reg' = [op |-> "remove", name |-> name, pre |-> instances]
    /\ UNCHANGED next_id
    /\ RegistryFrame

\* lb.instances[k].mark_healthy()
RegMarkHealthy(k) ==
    /\ instances' = [instances EXCEPT ![k] = mark_healthy(@)]
    /\ reg' = NoReg
    /\ UNCHANGED next_id
    /\ RegistryFrame

\* lb.instances[k].mark_unhealthy()
RegMarkUnhealthy(k) ==
    /\ instances[k].consecutive_failures < MaxFailures
    /\ instances' = [instances EXCEPT ![k] = mark_unhealthy(@)]
    /\ reg' = NoReg
    /\ UNCHANGED next_id
    /\ RegistryFrame

RegistryNext ==
    \/ \E name \in Names : RegAdd(name)
    \/ \E name \in Names : RegRemove(name)
    \/ \E k \in 1..Len(instances) : RegMarkHealthy(k)
    \/ \E k \in 1..Len(instances) : RegMarkUnhealthy(k)

RegistrySpec == RegistrySpecInit /\ [][RegistryNext]_vars

\* the positions of list whose instance is not called name
Others(list, name) == {k \in 1..Len(list) : list[k].name # name}

\* the j-th smallest element of the set of positions S
Nth(S, j) == CHOOSE k \in S : Cardinality({m \in S : m < k}) = j - 1

\* C21: remove_instance(name) leaves exactly the instances with another
\* name, in the order they had and each with the state it had, so that a
\* name the pool does not hold leaves the pool as it was; add_instance puts
\* the new instance last and leaves the instances before it as they were.
C21_RemoveKeepsOrder ==
    /\ reg.op = "remove" =>
           LET S == Others(reg.pre, reg.name)
           IN  /\ Len(instances) = Cardinality(S)
               /\ \A j \in 1..Len(instances) : instances[j] = reg.pre[Nth(S, j)]
               /\ S = 1..Len(reg.pre) => instances = reg.pre
    /\ reg.op = "add" =>
           /\ Len(instances) = Len(reg.pre) + 1
           /\ SubSeq(instances, 1, Len(reg.pre)) = reg.pre
           /\ instances[Len(instances)].name = reg.name

\* the middle instance of three was removed: the two survivors, in different
\* health states, are the first and the last of the pool before
C21_Witness ==
    /\ reg.op = "remove"
    /\ Len(reg.pre) = 3
    /\ reg.pre[2].name = reg.name
    /\ Len(instances) = 2
    /\ instances[1].health_status = UNHEALTHY
    /\ instances[2].health_status = HEALTHY

(***************************************************************************)
(* FailoverSpec: one caller driving a FailoverManager over a pool of three *)
(* instances: "a" and "b" may be made primaries, "c" their backup, and "x" *)
(* is a name the pool does not hold.  fo remembers the last call of the    *)
(* manager: the length of the log before it, whether the call before it    *)
(* was the same one, and what it returned.                                 *)
(***************************************************************************)
PrimaryNames == {"a", "b", "x"}
BackupNames == {"c", "x"}

FailoverPool ==
    <<NewInstance(1, "a", 1), NewInstance(2, "b", 1), NewInstance(3, "c", 1)>>

FailoverSpecInit ==
    /\ cfg = DefaultConfig
    /\ BreakerInit
    /\ ThreadsInit
    /\ instances = FailoverPool
    /\ next_id = 4
    /\ current_index = 0
    /\ picks = <<>>
    /\ base = 0
    /\ RRInit
    /\ AlgInit("round_robin")
    /\ HealthInit(3)
    /\ DispatchInit
    /\ MgmtInit

FailoverFrame ==
    UNCHANGED <<next_id, current_index, picks, base, breaker_vars, thread_vars,
                rr_vars, alg_vars, health_vars, dispatch_vars, reg,
                enable_failback>>

\* failover.set_primary(name)
SetPrimary(name) ==
    /\ primary_instances' = set_primary(primary_instances, instances, name)
    /\ fo' = NoCall
    /\ UNCHANGED <<instances, backup_instances, failover_history>>
    /\ FailoverFrame

\* failover.set_backup(primary_name, backup_name)
SetBackup(primary_name, backup_name) ==
    /\ backup_instances' =
           set_backup(backup_instances, instances, primary_name, backup_name)
    /\ fo' = NoCall
    /\ UNCHANGED <<instances, primary_instances, failover_history>>
    /\ FailoverFrame

\* lb.instances[k].mark_healthy()
FoMarkHealthy(k) ==
    /\ instances' = [instances EXCEPT ![k] = mark_healthy(@)]
    /\ fo' = NoCall
    /\ UNCHANGED <<primary_instances, backup_instances, failover_history>>
    /\ FailoverFrame

\* lb.instances[k].mark_unhealthy()
FoMarkUnhealthy(k) ==
    /\ instances[k].consecutive_failures < MaxFailures
    /\ instances' = [instances EXCEPT ![k] = mark_unhealthy(@)]
    /\ fo' = NoCall
    /\ UNCHANGED <<primary_instances, backup_instances, failover_history>>
    /\ FailoverFrame

\* lb.instances[k].mark_degraded()
FoMarkDegraded(k) ==
    /\ instances' = [instances EXCEPT ![k] = mark_degraded(@)]
    /\ fo' = NoCall
    /\ UNCHANGED <<primary_instances, backup_instances, failover_history>>
    /\ FailoverFrame

\* lb.instances[k].record_request(False, 0)
FoRecord(k) ==
    /\ TotalRequests(instances) < MaxFailoverRequests
    /\ instances' = [instances EXCEPT ![k] = record_request(@, FALSE, 0)]
    /\ fo' = NoCall
    /\ UNCHANGED <<primary_instances, backup_instances, failover_history>>
    /\ FailoverFrame

\* failover.check_and_failover()
CheckAndFailover ==
    LET history == check_and_failover(primary_instances, backup_instances,
                                      instances, failover_history)
    IN  /\ Len(history) <= MaxEvents
        /\ failover_history' = history
        /\ fo' = [op |-> "failover", pre |-> Len(failover_history),
                  again |-> fo.op = "failover", ret |-> <<>>]
        /\ UNCHANGED <<instances, primary_instances, backup_instances>>
        /\ FailoverFrame

\* failover.check_and_failback()
CheckAndFailback ==
    LET history == check_and_failback(enable_failback, primary_instances,
                                      backup_instances, instances,
                                      failover_history)
    IN  /\ Len(history) <= MaxEvents
        /\ failover_history' = history
        /\ fo' = [op |-> "failback", pre |-> Len(failover_history),
                  again |-> fo.op = "failback", ret |-> <<>>]
        /\ UNCHANGED <<instances, primary_instances, backup_instances>>
        /\ FailoverFrame

\* health_checker.get_health_summary()
GetHealthSummary ==
    /\ fo' = [op |-> "summary", pre |-> Len(failover_history),
              again |-> fo.op = "summary",
              ret |-> get_health_summary(instances)]
    /\ UNCHANGED <<instances, primary_instances, backup_instances,
                   failover_history>>
    /\ FailoverFrame

\* failover.get_failover_history()
GetFailoverHistory ==
    LET r == get_failover_history(failover_history)
    IN  /\ failover_history' = r.failover_history
        /\ fo' = [op |-> "history", pre |-> Len(failover_history),
                  again |-> fo.op = "history", ret |-> r.ret]
        /\ UNCHANGED <<instances, primary_instances, backup_instances>>
        /\ FailoverFrame

FailoverNext ==
    \/ \E name \in PrimaryNames : SetPrimary(name)
    \/ \E primary_name \in PrimaryNames, backup_name \in BackupNames :
           SetBackup(primary_name, backup_name)
    \/ \E k \in 1..Len(instances) : FoMarkHealthy(k)
    \/ \E k \in 1..Len(instances) : FoMarkUnhealthy(k)
    \/ \E k \in 1..Len(instances) : FoMarkDegraded(k)
    \/ CheckAndFailover
    \/ GetHealthSummary
    \/ GetFailoverHistory

FailoverSpec == FailoverSpecInit /\ [][FailoverNext]_vars

(***************************************************************************)
(* FailbackSpec: the same pool and manager, with failback enabled or not,  *)
(* while the instances serve requests and their health changes.            *)
(***************************************************************************)
FailbackSpecInit ==
    /\ cfg = DefaultConfig
    /\ BreakerInit
    /\ ThreadsInit
    /\ instances = FailoverPool
    /\ next_id = 4
    /\ current_index = 0
    /\ picks = <<>>
    /\ base = 0
    /\ RRInit
    /\ AlgInit("round_robin")
    /\ HealthInit(3)
    /\ DispatchInit
    /\ reg = NoReg
    /\ \E enabled \in BOOLEAN : FailoverInit(enabled)

FailbackNext ==
    \/ \E name \in PrimaryNames : SetPrimary(name)
    \/ \E primary_name \in PrimaryNames, backup_name \in BackupNames :
           SetBackup(primary_name, backup_name)
    \/ \E k \in 1..Len(instances) : FoMarkHealthy(k)
    \/ \E k \in 1..Len(instances) : FoMarkUnhealthy(k)
    \/ \E k \in 1..Len(instances) : FoRecord(k)
    \/ CheckAndFailback

FailbackSpec == FailbackSpecInit /\ [][FailbackNext]_vars

\* name is a key of primary_instances
Registered(name) ==
    \E k \in 1..Len(primary_instances) : primary_instances[k].name = name

\* the instance primary_instances holds for a registered name
PrimaryOf(name) ==
    ById(instances,
         primary_instances[CHOOSE k \in 1..Len(primary_instances) :
                               primary_instances[k].name = name].instance)

\* the instance backup_instances holds for a name it has
BackupOf(name) == ById(instances, backup_instances[name])

\* the places of the log the last call wrote
Appended == (fo.pre + 1)..Len(failover_history)

\* a registered primary that is not healthy and has a healthy backup
FailoverDue(name) ==
    /\ Registered(name)
    /\ PrimaryOf(name).health_status \in {UNHEALTHY, DEGRADED, UNKNOWN}
    /\ name \in DOMAIN backup_instances
    /\ BackupOf(name).health_status = HEALTHY

\* C22: one check_and_failover call appends one failover event, from the
\* primary to its backup, for each registered primary that is not healthy
\* (unhealthy, degraded or unknown) and has a registered healthy backup, and
\* nothing for any other name: a primary without a backup is passed over.
C22_OneFailoverEach ==
    fo.op = "failover" =>
        /\ \A name \in PrimaryNames :
               Cardinality({k \in Appended : failover_history[k].from = name})
                   = IF FailoverDue(name) THEN 1 ELSE 0
        /\ \A k \in Appended :
               /\ failover_history[k].type = "failover"
               /\ failover_history[k].from \in PrimaryNames
               /\ FailoverDue(failover_history[k].from)
               /\ failover_history[k].to = BackupOf(failover_history[k].from).name

\* one call failed over two primaries, one unhealthy and one degraded, while
\* a third registered name had nothing to fail over to
C22_Witness ==
    /\ fo.op = "failover"
    /\ Len(failover_history) = fo.pre + 2
    /\ PrimaryOf("a").health_status = UNHEALTHY
    /\ PrimaryOf("b").health_status = DEGRADED

\* C23: a check_and_failover call that directly follows another one, the
\* health of every instance being what it was, appends no failover event for
\* a primary that is not healthy and has a healthy backup.
C23_NoRepeatedFailover ==
    (fo.op = "failover" /\ fo.again) =>
        \A name \in PrimaryNames :
            FailoverDue(name) =>
                \A k \in Appended : failover_history[k].from # name

\* a registered healthy primary whose backup has served more requests, with
\* failback enabled
FailbackDue(name) ==
    /\ enable_failback
    /\ Registered(name)
    /\ PrimaryOf(name).health_status = HEALTHY
    /\ name \in DOMAIN backup_instances
    /\ BackupOf(name).total_requests > PrimaryOf(name).total_requests

\* C24: one check_and_failback call appends a failback event, from the
\* backup to the primary, for exactly the registered primaries that are
\* healthy and have a registered backup with strictly more total_requests,
\* provided failback is enabled; disabled, it appends nothing.
C24_FailbackWhenBackupActive ==
    fo.op = "failback" =>
        /\ \A name \in PrimaryNames :
               Cardinality({k \in Appended : failover_history[k].to = name})
                   = IF FailbackDue(name) THEN 1 ELSE 0
        /\ \A k \in Appended :
               /\ failover_history[k].type = "failback"
               /\ failover_history[k].to \in PrimaryNames
               /\ FailbackDue(failover_history[k].to)
               /\ failover_history[k].from = BackupOf(failover_history[k].to).name
        /\ ~enable_failback => Appended = {}

\* one call failed back to one healthy primary and not to another healthy
\* primary that has served as many requests as its backup
C24_Witness ==
    /\ fo.op = "failback"
    /\ Len(failover_history) = fo.pre + 1
    /\ Registered("a") /\ Registered("b")
    /\ PrimaryOf("a").health_status = HEALTHY
    /\ PrimaryOf("b").health_status = HEALTHY
    /\ "b" \in DOMAIN backup_instances
    /\ BackupOf("b").total_requests = PrimaryOf("b").total_requests

\* C25: get_health_summary and get_failover_history leave the pool, the
\* instances, the mappings and the log of the failover manager as they
\* were, and a call that directly follows the same call returns what that
\* one returned.
C25_ReadsChangeNothing ==
    [][fo'.op \in {"summary", "history"} =>
           /\ UNCHANGED <<instances, removed, enable_failback, primary_instances,
                          backup_instances, failover_history>>
           /\ fo.op = fo'.op => fo'.ret = fo.ret]_vars

\* the log, holding an event, was read twice in a row
C25_Witness ==
    /\ fo.op = "history"
    /\ fo.again
    /\ Len(fo.ret) >= 1
    /\ fo.ret = failover_history

(***************************************************************************)
(* RemovalSpec: one thread inside forward_request, by step, while another  *)
(* caller removes instances from the pool.                                 *)
(***************************************************************************)
Dispatcher == "t1"

RemovalNext ==
    \/ \E name \in Names : DRemove(name)
    \/ DStart(Dispatcher)
    \/ DRead(Dispatcher)
    \/ DWrite(Dispatcher)
    \/ \E outcome \in CallOutcomes, rt \in ResponseTimes :
           DRequest(Dispatcher, outcome, rt)
    \/ \E decoded \in BOOLEAN : DJson(Dispatcher, decoded)

RemovalSpec == DispatchSpecInit /\ [][RemovalNext]_vars

\* the next step of the thread inside forward_request
DispatchStep ==
    \/ DRead(Dispatcher)
    \/ DWrite(Dispatcher)
    \/ \E outcome \in CallOutcomes, rt \in ResponseTimes :
           DRequest(Dispatcher, outcome, rt)
    \/ \E decoded \in BOOLEAN : DJson(Dispatcher, decoded)

\* C26: a dispatch goes on after its instance is removed from the pool: the
\* instance it holds is still there to be updated and its next step can be
\* taken; when it returns, the instance has a request recorded and no
\* connection left open; and get_next_instance never hands out an instance
\* that has been removed.
C26_RemovalKeepsDispatch ==
    /\ [](d[Dispatcher].pc # "idle" =>
              /\ \E k \in 1..Len(Objects) : Objects[k].id = d[Dispatcher].instance
              /\ ENABLED DispatchStep)
    /\ [][/\ (d[Dispatcher].pc # "idle" /\ d'[Dispatcher].pc = "idle") =>
                 LET after == ById(instances' \o removed', d[Dispatcher].instance)
                 IN  /\ after.active_connections = 0
                     /\ after.total_requests >= 1
          /\ (d[Dispatcher].pc = "idle" /\ d'[Dispatcher].pc # "idle") =>
                 \A k \in 1..Len(removed) :
                     removed[k].id # d'[Dispatcher].instance]_vars

\* the instance was removed after the dispatch opened its connection and
\* before it recorded the request: the thread is about to write
\* total_requests of the removed instance
C26_Witness ==
    /\ d[Dispatcher].pc = "rec_total"
    /\ d[Dispatcher].half = "write"
    /\ instances = <<>>
    /\ Len(removed) = 1
    /\ removed[1].id = d[Dispatcher].instance
    /\ removed[1].total_requests = 0
    /\ removed[1].active_connections = 1

(***************************************************************************)
(* MonitorSpec: the monitor thread inside check_all_instances, one pass of *)
(* its loop at a time, while another caller adds and removes instances.    *)
(*                                                                         *)
(* The for statement iterates over the list object lb.instances was when   *)
(* the loop began: cycle.list holds its instances, cycle.pos the place of  *)
(* the iterator.  add_instance appends to the list object of the pool,     *)
(* which the loop sees as long as it is the same object (cycle.shared);    *)
(* remove_instance binds lb.instances to a new list and leaves the old one *)
(* to the loop.  cycle.start is the pool as the loop found it, and         *)
(* cycle.probed the probes made, in order.                                 *)
(***************************************************************************)
MonitorOutcomes ==
    {Response(200), Response(500), Raised("Timeout"), Raised("ConnectionError")}

\* the list with the instance of identity id replaced by i
Replace(list, id, i) ==
    [k \in 1..Len(list) |-> IF list[k].id = id THEN i ELSE list[k]]

MonitorFrame ==
    UNCHANGED <<current_index, picks, base, breaker_vars, thread_vars, rr_vars,
                alg_vars, unhealthy_threshold, probe, lifecycle_vars, started,
                d, fwd, mgmt_vars>>

\* lb.add_instance(name, url)
MonAdd(name) ==
    /\ next_id <= MaxMonitorInstances
    /\ instances' = add_instance(instances, next_id, name, 1)
    /\ next_id' = next_id + 1
    /\ cycle' = IF cycle.pc = "loop" /\ cycle.shared
                THEN [cycle EXCEPT !.list = Append(@, next_id)]
                ELSE cycle
    /\ UNCHANGED removed
    /\ MonitorFrame

\* lb.remove_instance(name)
MonRemove(name) ==
    /\ instances' = remove_instance(instances, name)
    /\ removed' = removed \o detached(instances, name)
    /\ cycle' = IF cycle.pc = "loop"
                THEN [cycle EXCEPT !.shared = FALSE]
                ELSE cycle
    /\ UNCHANGED next_id
    /\ MonitorFrame

\* line 65: the for statement takes an iterator of lb.instances
CycleStart ==
    /\ cycle.pc = "idle"
    /\ \A k \in 1..Len(instances) :
           instances[k].consecutive_failures < MaxProbeFailures
    /\ cycle' = [pc |-> "loop", list |-> Ids(instances), shared |-> TRUE,
                 pos |-> 1, start |-> Ids(instances), probed |-> <<>>]
    /\ UNCHANGED <<instances, next_id, removed>>
    /\ MonitorFrame

\* line 66 for the next instance of the iterator
CycleProbe(outcome) ==
    /\ cycle.pc = "loop"
    /\ cycle.pos <= Len(cycle.list)
    /\ LET id == cycle.list[cycle.pos]
           r == probe_step(Obj(id), outcome, unhealthy_threshold)
       IN  /\ instances' = Replace(instances, id, r.instance)
           /\ removed' = Replace(removed, id, r.instance)
           /\ cycle' = IF r.raised
                       THEN [cycle EXCEPT !.pc = "idle"]
                       ELSE [cycle EXCEPT
                                 !.pos = @ + 1,
                                 !.probed = Append(@, [id |-> id,
                                                       outcome |-> outcome])]
    /\ UNCHANGED next_id
    /\ MonitorFrame

\* the iterator is exhausted: check_all_instances returns
CycleEnd ==
    /\ cycle.pc = "loop"
    /\ cycle.pos > Len(cycle.list)
    /\ cycle' = [cycle EXCEPT !.pc = "idle"]
    /\ UNCHANGED <<instances, next_id, removed>>
    /\ MonitorFrame

MonitorNext ==
    \/ MonAdd(NameFor(next_id))
    \/ \E name \in Names : MonRemove(name)
    \/ CycleStart
    \/ \E outcome \in MonitorOutcomes : CycleProbe(outcome)
    \/ CycleEnd

MonitorSpec == HealthSpecInit /\ [][MonitorNext]_vars

\* the identities probed in the cycle, in order
ProbedIds == [k \in 1..Len(cycle.probed) |-> cycle.probed[k].id]

\* C30: a cycle probes the instances of the pool it began with in pool
\* order and none twice; whatever the probes before answered, the next
\* instance can be probed, and when check_all_instances returns every
\* instance of that pool has been probed.
C30_CycleProbesEachOnce ==
    /\ \A j, k \in 1..Len(ProbedIds) : ProbedIds[j] = ProbedIds[k] => j = k
    /\ \A k \in 1..Len(ProbedIds) :
           k <= Len(cycle.start) => ProbedIds[k] = cycle.start[k]
    /\ (cycle.pc = "loop" /\ Len(ProbedIds) < Len(cycle.start)) =>
           ENABLED (\E outcome \in MonitorOutcomes : CycleProbe(outcome))
    /\ cycle.pc = "idle" => Len(ProbedIds) >= Len(cycle.start)

\* a finished cycle over two instances: the probe of the first one timed
\* out and the second one was probed all the same
C30_Witness ==
    /\ cycle.pc = "idle"
    /\ cycle.start = <<1, 2>>
    /\ cycle.probed = <<[id |-> 1, outcome |-> Raised("Timeout")],
                        [id |-> 2, outcome |-> Response(200)]>>
    /\ Obj(1).health_status = UNHEALTHY
    /\ Obj(2).health_status = HEALTHY

(***************************************************************************)
(* AdvisorySpec: a pool of three with "a" and "b" registered as primaries  *)
(* and "c" as the backup of both, as after set_primary("a"),               *)
(* set_primary("b"), set_backup("a", "c"), set_backup("b", "c").  The      *)
(* health and the counters of the instances change, the manager is asked   *)
(* to fail over and to fail back, and the balancer selects.                *)
(***************************************************************************)
AdvisorySpecInit ==
    /\ cfg = DefaultConfig
    /\ BreakerInit
    /\ ThreadsInit
    /\ instances = FailoverPool
    /\ next_id = 4
    /\ current_index = 0
    /\ picks = <<>>
    /\ base = 0
    /\ RRInit
    /\ AlgInit("round_robin")
    /\ HealthInit(3)
    /\ DispatchInit
    /\ reg = NoReg
    /\ enable_failback = TRUE
    /\ primary_instances =
           set_primary(set_primary(<<>>, FailoverPool, "a"), FailoverPool, "b")
    /\ backup_instances =
           set_backup(set_backup([name \in {} |-> 0], FailoverPool, "a", "c"),
                      FailoverPool, "b", "c")
    /\ failover_history = <<>>
    /\ fo = NoCall

\* lb.get_next_instance(); fo.ret holds the id of the instance returned
AdvSelect ==
    /\ current_index < MaxAdvisorySelect
    /\ LET r == get_next_instance(instances, current_index)
       IN  /\ current_index' = r.current_index
           /\ fo' = [op |-> "select", pre |-> Len(failover_history),
                     again |-> fo.op = "select",
                     ret |-> IF r.instance = NoInstance
                             THEN <<>>
                             ELSE <<r.instance.id>>]
    /\ UNCHANGED <<instances, next_id, picks, base, breaker_vars, thread_vars,
                   rr_vars, alg_vars, health_vars, dispatch_vars, reg,
                   enable_failback, primary_instances, backup_instances,
                   failover_history>>

AdvisoryNext ==
    \/ \E k \in 1..Len(instances) : FoMarkHealthy(k)
    \/ \E k \in 1..Len(instances) : FoMarkUnhealthy(k)
    \/ \E k \in 1..Len(instances) : FoRecord(k)
    \/ CheckAndFailover
    \/ CheckAndFailback
    \/ AdvSelect

AdvisorySpec == AdvisorySpecInit /\ [][AdvisoryNext]_vars

\* seq begins with the whole of prefix
StartsWith(seq, prefix) ==
    /\ Len(prefix) <= Len(seq)
    /\ SubSeq(seq, 1, Len(prefix)) = prefix

\* C33: a check_and_failover or check_and_failback call only appends to the
\* log: the pool, every instance's health and counters, the primary and
\* backup mappings and the cursor are as they were, and get_next_instance
\* would return the same instance after the call as before it.
C33_ChecksOnlyAppend ==
    [][fo'.op \in {"failover", "failback"} =>
           /\ UNCHANGED <<instances, removed, current_index, enable_failback,
                          primary_instances, backup_instances>>
           /\ StartsWith(failover_history', failover_history)
           /\ get_next_instance(instances', current_index') =
                  get_next_instance(instances, current_index)]_vars

\* a failover from "a" to "c" was logged after an earlier event, and the
\* balancer still has the cursor where the last selection left it
C33_Witness ==
    /\ fo.op = "failover"
    /\ fo.pre >= 1
    /\ Len(failover_history) > fo.pre
    /\ failover_history[Len(failover_history)].from = "a"
    /\ current_index >= 1

(***************************************************************************)
(* LockedWeightedSpec: two threads in get_next_instance of a balancer      *)
(* built with 'weighted', over a pool of two whose health changes.  A      *)
(* thread takes its list of healthy instances (balancer.py line 70), then  *)
(* enters the algorithm's lock, where it rebuilds, selects and advances    *)
(* (algorithms.py lines 85-98), then leaves the lock and returns.  rr_list *)
(* is the list a thread passed, rr_got what it was given, the cursor it    *)
(* read and last_instances as it found it.                                 *)
(***************************************************************************)
WeightedPool == <<NewInstance(1, "a", 2), NewInstance(2, "b", 0)>>

LockedWeightedSpecInit ==
    /\ cfg = DefaultConfig
    /\ BreakerInit
    /\ ThreadsInit
    /\ instances = WeightedPool
    /\ next_id = 3
    /\ current_index = 0
    /\ picks = <<>>
    /\ base = 0
    /\ RRInit
    /\ AlgInit("weighted")
    /\ HealthInit(3)
    /\ DispatchInit
    /\ MgmtInit

\* lb.instances[k].mark_healthy()
LWMarkHealthy(k) ==
    /\ instances' = [instances EXCEPT ![k] = mark_healthy(@)]
    /\ UNCHANGED <<next_id, current_index, picks, base, breaker_vars,
                   thread_vars, rr_vars, ext_vars>>

\* lb.instances[k].mark_unhealthy()
LWMarkUnhealthy(k) ==
    /\ instances[k].consecutive_failures < MaxFailures
    /\ instances' = [instances EXCEPT ![k] = mark_unhealthy(@)]
    /\ UNCHANGED <<next_id, current_index, picks, base, breaker_vars,
                   thread_vars, rr_vars, ext_vars>>

\* balancer.py lines 70-76, algorithms.py lines 82-83
LWEnter(t) ==
    /\ rr_pc[t] = "idle"
    /\ Len(rr_used) < MaxLockedSelect
    /\ rr_list' = [rr_list EXCEPT ![t] = get_healthy_instances(instances)]
    /\ rr_pc' = [rr_pc EXCEPT ![t] =
                    IF get_healthy_instances(instances) = <<>>
                    THEN "idle"
                    ELSE "lock"]
    /\ UNCHANGED <<rr_lock, rr_got, rr_used, pool_vars, breaker_vars,
                   thread_vars, ext_vars>>

\* algorithms.py line 85
LWAcquire(t) ==
    /\ rr_pc[t] = "lock"
    /\ lock_is_free(rr_lock)
    /\ rr_lock' = t
    /\ rr_pc' = [rr_pc EXCEPT ![t] = "select"]
    /\ UNCHANGED <<rr_list, rr_got, rr_used, pool_vars, breaker_vars,
                   thread_vars, ext_vars>>

\* algorithms.py lines 87-98, inside the lock
LWSelect(t) ==
    /\ rr_pc[t] = "select"
    /\ LET r == weighted_select_instance(rr_list[t], current_index,
                                         weighted_instances, last_instances)
       IN  /\ current_index' = r.current_index
           /\ weighted_instances' = r.weighted_instances
           /\ last_instances' = r.last_instances
           /\ rr_got' = [rr_got EXCEPT ![t] =
                            [instance |-> r.instance.id,
                             cursor |-> current_index,
                             found |-> last_instances]]
    /\ rr_used' = Append(rr_used, current_index)
    /\ rr_pc' = [rr_pc EXCEPT ![t] = "release"]
    /\ UNCHANGED <<rr_lock, rr_list, instances, next_id, picks, base,
                   algorithm, sel, health_vars, dispatch_vars, mgmt_vars,
                   breaker_vars, thread_vars>>

\* the end of the with block, and line 100
LWRelease(t) ==
    /\ rr_pc[t] = "release"
    /\ rr_lock' = Free
    /\ rr_pc' = [rr_pc EXCEPT ![t] = "idle"]
    /\ UNCHANGED <<rr_list, rr_got, rr_used, pool_vars, breaker_vars,
                   thread_vars, ext_vars>>

LockedWeightedNext ==
    \/ \E k \in 1..Len(instances) : LWMarkHealthy(k)
    \/ \E k \in 1..Len(instances) : LWMarkUnhealthy(k)
    \/ \E t \in Threads : LWEnter(t)
    \/ \E t \in Threads : LWAcquire(t)
    \/ \E t \in Threads : LWSelect(t)
    \/ \E t \in Threads : LWRelease(t)

LockedWeightedSpec == LockedWeightedSpecInit /\ [][LockedWeightedNext]_vars

\* the identities in a list
Members(list) == {list[k].id : k \in 1..Len(list)}

\* C34: under any interleaving, a select_instance call of the weighted
\* algorithm that was passed a list other than last_instances leaves the
\* expansion built from the list it was passed, and every call returns an
\* instance of the list it was passed.
C34_ReturnsMemberOfList ==
    \A t \in Threads :
        rr_pc[t] = "release" =>
            /\ rr_got[t].instance \in Members(rr_list[t])
            /\ last_instances = Ids(rr_list[t])
            /\ rr_got[t].found # Ids(rr_list[t]) =>
                   weighted_instances = _build_weighted_list(rr_list[t])

\* a call passed a list as long as the one seen before it, with another
\* member, while the other thread waits for the lock with a list of its own
C34_Witness ==
    \E t, u \in Threads :
        /\ rr_pc[t] = "release"
        /\ Len(rr_got[t].found) = Len(rr_list[t])
        /\ rr_got[t].found # NoList
        /\ \E id \in Members(rr_list[t]) :
               \A k \in 1..Len(rr_got[t].found) : rr_got[t].found[k] # id
        /\ rr_pc[u] = "lock"
        /\ rr_list[u] # rr_list[t]

(***************************************************************************)
(* The breaker with one caller again: Spec, and RecoverySpec, which is     *)
(* Spec with a clock that keeps running up to MaxTime and a caller that    *)
(* keeps calling.                                                          *)
(***************************************************************************)
\* C35: a call that finds the breaker Closed and succeeds leaves
\* failure_count as it was and the breaker Closed; one that fails adds 1 to
\* failure_count and opens the breaker exactly when the count reaches
\* failure_threshold. The breaker becomes Closed with failure_count 0, and
\* while it is Closed failure_count is below failure_threshold.
C35_SuccessKeepsFailureCount ==
    /\ [](cb.state = CLOSED => cb.failure_count < cfg.failure_threshold)
    /\ [][/\ (last'.op = "call" /\ cb.state = CLOSED) =>
               IF last'.out = "ok"
               THEN /\ cb'.state = CLOSED
                    /\ cb'.failure_count = cb.failure_count
               ELSE /\ cb'.failure_count = cb.failure_count + 1
                    /\ cb'.state = OPEN <=>
                           cb.failure_count + 1 >= cfg.failure_threshold
          /\ (cb.state # CLOSED /\ cb'.state = CLOSED) =>
               cb'.failure_count = 0]_vars

\* a success between two failures: the count stands one short of the
\* threshold after it
C35_Witness ==
    /\ last.op = "call"
    /\ last.out = "ok"
    /\ last.pre.state = CLOSED
    /\ last.pre.failure_count >= 1
    /\ cb.state = CLOSED
    /\ cb.failure_count = last.pre.failure_count
    /\ cb.failure_count = cfg.failure_threshold - 1

\* the breaker of Spec opening at the first failure: the threshold is read
\* only while the breaker is Closed (line 107)
RecoveryInit ==
    /\ Init
    /\ cfg.failure_threshold = 1

\* time keeps advancing (as far as MaxTime) and calls keep arriving
RecoverySpec ==
    /\ RecoveryInit
    /\ [][Next]_vars
    /\ WF_vars(Tick)
    /\ WF_vars(\E out \in Outcomes : Call(out))

\* Open or HalfOpen with half_open_max_calls >= 1, the end of the cool-down
\* not later than the clock reaches
Unavailable ==
    /\ cb.state \in {OPEN, HALF_OPEN}
    /\ cfg.half_open_max_calls >= 1
    /\ (cb.state = OPEN /\ cb.last_failure_time # None) =>
           cb.last_failure_time + cfg.timeout <= MaxTime

\* the last call was admitted while Open or HalfOpen and its function failed
TrialFailed ==
    /\ last.op = "call"
    /\ last.invoked
    /\ last.kind = "raise"
    /\ last.pre.state \in {OPEN, HALF_OPEN}

\* C36: from an Open or HalfOpen breaker with half_open_max_calls >= 1,
\* with time advancing and calls arriving one after the other, the breaker
\* becomes Closed unless the wrapped function fails in a call it was let
\* into.
C36_EventuallyClosed == Unavailable ~> (cb.state = CLOSED \/ TrialFailed)

\* Closed by the second of two trial calls in a row, after a cool-down
C36_Witness ==
    /\ cfg.half_open_max_calls = 2
    /\ cfg.timeout >= 1
    /\ last.op = "call"
    /\ last.kind = "return"
    /\ last.pre.state = HALF_OPEN
    /\ last.pre.success_count = 1
    /\ last.pre.last_failure_time # None
    /\ cb.state = CLOSED

\* C37: a wrapped call that fails while the breaker is HalfOpen leaves it
\* Open with last_failure_time the time of that call; a call that is not let
\* through leaves last_failure_time as it was; and a call made while Open
\* less than timeout after last_failure_time is not let through.
C37_TrialFailureRestartsCoolDown ==
    [][last'.op = "call" =>
           /\ (last'.invoked /\ last'.kind = "raise"
                  /\ last'.mid.state = HALF_OPEN) =>
                  cb'.state = OPEN /\ cb'.last_failure_time = now
           /\ ~last'.invoked =>
                  cb'.last_failure_time = cb.last_failure_time
           /\ (cb.state = OPEN /\ cb.last_failure_time # None
                  /\ now - cb.last_failure_time < cfg.timeout) =>
                  /\ ~last'.invoked
                  /\ last'.err = "CircuitOpen"
                  /\ cb' = cb]_vars

\* a call rejected after a trial call failed (failure_count is 1 below a
\* threshold of 2 or more only then): timeout has passed since the failure
\* that first opened the breaker, not since the trial's
C37_Witness ==
    /\ cfg.failure_threshold >= 2
    /\ cfg.timeout = 2
    /\ last.op = "call"
    /\ ~last.invoked
    /\ last.err = "CircuitOpen"
    /\ last.pre.state = OPEN
    /\ last.pre.failure_count = 1
    /\ last.at - last.pre.last_failure_time = 1
    /\ last.at >= 3
    /\ cb.state = OPEN

(***************************************************************************)
(* LifecycleSpec: the owner of a HealthChecker calling start() and stop(), *)
(* and the monitor threads start() makes, each by step through             *)
(* _monitor_loop: the test of the flag (line 56), the call of              *)
(* check_all_instances (line 58), its return, and the sleep (line 59).     *)
(* stop() clears the flag and joins the thread start() made last for at    *)
(* most 5 seconds: the join is over when that thread has ended, or when    *)
(* the time is up, which happens while the thread probes or sleeps (a      *)
(* probe lasts up to timeout = 2 seconds and the sleep check_interval = 5).*)
(* after counts the cycles a thread has begun since the last stop().       *)
(***************************************************************************)
LifecyclePool == <<mark_healthy(NewInstance(1, "a", 1))>>

LifecycleInit ==
    /\ cfg = DefaultConfig
    /\ BreakerInit
    /\ ThreadsInit
    /\ instances = LifecyclePool
    /\ next_id = 2
    /\ current_index = 0
    /\ picks = <<>>
    /\ base = 0
    /\ RRInit
    /\ AlgInit("round_robin")
    /\ HealthInit(3)
    /\ DispatchInit
    /\ MgmtInit

LifecycleFrame ==
    UNCHANGED <<next_id, current_index, picks, base, breaker_vars, thread_vars,
                rr_vars, alg_vars, unhealthy_threshold, probe, cycle,
                dispatch_vars, mgmt_vars>>

Handle == [running |-> running, monitor_thread |-> monitor_thread]

\* the threads that have not left _monitor_loop
Active == {i \in 1..Len(monitors) : monitors[i].pc # "done"}

\* health_checker.start()
Start ==
    /\ owner.pc = "idle"
    /\ Len(monitors) < MaxMonitors
    /\ LET h == start(Handle, Len(monitors) + 1)
       IN  /\ running' = h.running
           /\ monitor_thread' = h.monitor_thread
    /\ monitors' = Append(monitors, [pc |-> "test", after |-> 0])
    /\ owner' = [pc |-> "idle", call |-> "start"]
    /\ UNCHANGED instances
    /\ LifecycleFrame

\* health_checker.stop(), lines 49-51: the flag is cleared and the join begins
Stop ==
    /\ owner.pc = "idle"
    /\ LET h == stop(Handle)
       IN  /\ running' = h.running
           /\ monitor_thread' = h.monitor_thread
    /\ monitors' = [i \in 1..Len(monitors) |-> [monitors[i] EXCEPT !.after = 0]]
    /\ owner' = [pc |-> IF monitor_thread = NoThread THEN "idle" ELSE "join",
                 call |-> "stop"]
    /\ UNCHANGED instances
    /\ LifecycleFrame

\* line 51 returns: the thread has ended, or the 5 seconds are up
Joined ==
    /\ owner.pc = "join"
    /\ monitors[monitor_thread].pc \in {"done", "cycle", "sleep"}
    /\ owner' = [owner EXCEPT !.pc = "idle"]
    /\ UNCHANGED <<instances, running, monitor_thread, monitors>>
    /\ LifecycleFrame

\* line 56
LoopTest(i) ==
    /\ monitors[i].pc = "test"
    /\ monitors' = [monitors EXCEPT ![i].pc =
                        IF loop_continues(running) THEN "enter" ELSE "done"]
    /\ UNCHANGED <<instances, running, monitor_thread, owner>>
    /\ LifecycleFrame

\* line 58: check_all_instances is called
LoopEnter(i) ==
    /\ monitors[i].pc = "enter"
    /\ monitors' = [monitors EXCEPT
                        ![i].pc = "cycle",
                        ![i].after = IF owner.call = "stop" THEN @ + 1 ELSE @]
    /\ UNCHANGED <<instances, running, monitor_thread, owner>>
    /\ LifecycleFrame

\* line 58: check_all_instances returns
LoopCycle(i, outcome) ==
    /\ monitors[i].pc = "cycle"
    /\ outcome.kind # "response" =>
           \A k \in 1..Len(instances) :
               instances[k].consecutive_failures < MaxProbeFailures
    /\ instances' = check_all_instances(instances, outcome, unhealthy_threshold)
    /\ monitors' = [monitors EXCEPT ![i].pc = "sleep"]
    /\ UNCHANGED <<running, monitor_thread, owner>>
    /\ LifecycleFrame

\* line 59: the sleep is over
LoopWake(i) ==
    /\ monitors[i].pc = "sleep"
    /\ monitors' = [monitors EXCEPT ![i].pc = "test"]
    /\ UNCHANGED <<instances, running, monitor_thread, owner>>
    /\ LifecycleFrame

LifecycleOutcomes == {Response(200), Raised("Timeout")}

\* a step of monitor thread i
LoopStep(i) ==
    /\ i \in 1..Len(monitors)
    /\ \/ LoopTest(i)
       \/ LoopEnter(i)
       \/ \E outcome \in LifecycleOutcomes : LoopCycle(i, outcome)
       \/ LoopWake(i)

LifecycleNext ==
    \/ Start
    \/ Stop
    \/ Joined
    \/ \E i \in 1..Len(monitors) : LoopTest(i)
    \/ \E i \in 1..Len(monitors) : LoopEnter(i)
    \/ \E i \in 1..Len(monitors), outcome \in LifecycleOutcomes :
           LoopCycle(i, outcome)
    \/ \E i \in 1..Len(monitors) : LoopWake(i)

LifecycleSpec == LifecycleInit /\ [][LifecycleNext]_vars

\* every probe and every sleep completes, and a thread that can run does
StoppingSpec ==
    /\ LifecycleInit
    /\ [][LifecycleNext]_vars
    /\ \A i \in 1..MaxMonitors : WF_vars(LoopStep(i))

\* C38: at most one monitor thread is inside _monitor_loop at any time,
\* whatever start() and stop() calls were made.
C38_OneLoopAtATime == Cardinality(Active) <= 1

\* C39: after a stop() that no start() follows, a monitor thread begins at
\* most one more cycle, and every monitor thread leaves _monitor_loop.
C39_LoopEndsAfterStop ==
    /\ [](owner.call = "stop" =>
             \A i \in 1..Len(monitors) : monitors[i].after <= 1)
    /\ (owner.call = "stop") ~> (owner.call = "start" \/ Active = {})

\* a thread that had read the flag before stop() cleared it has begun its
\* one cycle since, and has left the loop after it
C39_Witness ==
    /\ owner.call = "stop"
    /\ monitors # <<>>
    /\ Active = {}
    /\ \E i \in 1..Len(monitors) : monitors[i].after = 1

(***************************************************************************)
(* StaleSpec: a pool of two, "a" with "c" as its backup, while instances   *)
(* are removed and added again.  primary_instances and backup_instances    *)
(* hold the objects they were given (lines 43, 56), so the checks read the *)
(* instance by its identity among all objects, in the pool or out of it.   *)
(***************************************************************************)
StalePool == <<NewInstance(1, "a", 1), NewInstance(2, "c", 1)>>

\* as after add_instance("a"), add_instance("c"), set_primary("a") and
\* set_backup("a", "c")
StaleInit ==
    /\ cfg = DefaultConfig
    /\ BreakerInit
    /\ ThreadsInit
    /\ instances = StalePool
    /\ next_id = 3
    /\ current_index = 0
    /\ picks = <<>>
    /\ base = 0
    /\ RRInit
    /\ AlgInit("round_robin")
    /\ HealthInit(3)
    /\ DispatchInit
    /\ reg = NoReg
    /\ enable_failback = TRUE
    /\ primary_instances = set_primary(<<>>, StalePool, "a")
    /\ backup_instances = set_backup([name \in {} |-> 0], StalePool, "a", "c")
    /\ failover_history = <<>>
    /\ fo = NoCall

StaleFrame ==
    UNCHANGED <<current_index, picks, base, breaker_vars, thread_vars,
                rr_vars, alg_vars, health_vars, started, d, fwd, reg,
                enable_failback, primary_instances, backup_instances>>

\* lb.remove_instance(name)
StRemove(name) ==
    /\ instances' = remove_instance(instances, name)
    /\ removed' = removed \o detached(instances, name)
    /\ fo' = NoCall
    /\ UNCHANGED <<next_id, failover_history>>
    /\ StaleFrame

\* lb.add_instance(name, url), for a name that is not in the pool
StAdd(name) ==
    /\ next_id <= MaxReAdded
    /\ get_instance_by_name(instances, name) = NoInstance
    /\ instances' = add_instance(instances, next_id, name, 1)
    /\ next_id' = next_id + 1
    /\ fo' = NoCall
    /\ UNCHANGED <<removed, failover_history>>
    /\ StaleFrame

\* failover.check_and_failover()
StCheckAndFailover ==
    LET history == check_and_failover(primary_instances, backup_instances,
                                      Objects, failover_history)
    IN  /\ Len(history) <= MaxStaleEvents
        /\ failover_history' = history
        /\ fo' = [op |-> "failover", pre |-> Len(failover_history),
                  again |-> fo.op = "failover", ret |-> <<>>]
        /\ UNCHANGED <<instances, next_id, removed>>
        /\ StaleFrame

\* failover.check_and_failback()
StCheckAndFailback ==
    LET history == check_and_failback(enable_failback, primary_instances,
                                      backup_instances, Objects,
                                      failover_history)
    IN  /\ Len(history) <= MaxStaleEvents
        /\ failover_history' = history
        /\ fo' = [op |-> "failback", pre |-> Len(failover_history),
                  again |-> fo.op = "failback", ret |-> <<>>]
        /\ UNCHANGED <<instances, next_id, removed>>
        /\ StaleFrame

\* lb.instances[k].record_request(False, 0)
StRecord(k) ==
    /\ TotalRequests(Objects) < MaxStaleRequests
    /\ instances' = [instances EXCEPT ![k] = record_request(@, FALSE, 0)]
    /\ fo' = NoCall
    /\ UNCHANGED <<next_id, removed, failover_history>>
    /\ StaleFrame

StaleNext ==
    \/ \E name \in {"a", "c"} : StRemove(name)
    \/ \E name \in {"a", "c"} : StAdd(name)
    \/ \E k \in 1..Len(instances) : FoMarkHealthy(k)
    \/ \E k \in 1..Len(instances) : FoMarkUnhealthy(k)
    \/ \E k \in 1..Len(instances) : StRecord(k)
    \/ StCheckAndFailover
    \/ StCheckAndFailback

StaleSpec == StaleInit /\ [][StaleNext]_vars

\* the instance the pool holds under a name
InPool(name) == get_instance_by_name(instances, name)

\* C40: every event a check_and_failover or check_and_failback call appends
\* names a primary and a backup that are in the pool, and follows from the
\* instances the pool holds under these names: an unhealthy primary and a
\* healthy backup for a failover, a healthy primary with fewer requests than
\* its backup for a failback.
C40_EventsFromPoolOnly ==
    fo.op \in {"failover", "failback"} =>
        \A k \in Appended :
            LET ev == failover_history[k]
                primary == InPool(IF ev.type = "failover" THEN ev.from ELSE ev.to)
                backup == InPool(IF ev.type = "failover" THEN ev.to ELSE ev.from)
            IN  /\ primary # NoInstance
                /\ backup # NoInstance
                /\ ev.type = "failover" =>
                       ~is_healthy(primary) /\ is_healthy(backup)
                /\ ev.type = "failback" =>
                       /\ is_healthy(primary)
                       /\ backup.total_requests > primary.total_requests

====
